---------------------------- MODULE Spec2Model ----------------------------
(***************************************************************************)
(* Verification model of the WhatsApp conversational agent                 *)
(* (johpaz/bunElisyaAgent): webhook handshake and payload validation, the  *)
(* POST webhook handler with its background task, the Memory Store         *)
(* (AgentMemory over the PostgreSQL repositories) and the conversation     *)
(* turn (WhatsAppAgent.processTextMessage).                                *)
(*                                                                         *)
(* The module holds several specifications over one set of variables; each *)
(* specification drives one part of the program and leaves the variables   *)
(* of the other parts at their idle values.                                *)
(*   SpecHandshake  GET /webhook and WebhookService.verifyWebhook          *)
(*   SpecPayload    WebhookService.processWebhookPayload on built payloads *)
(*   SpecMemory     AgentMemory operations issued by concurrent callers    *)
(*   SpecTurn       WhatsAppAgent.processTextMessage, one turn per task    *)
(*   SpecConversation  several text messages handed to the agent, one at a *)
(*                  time or concurrently                                   *)
(*   SpecWebhook    POST /webhook and the background task it schedules     *)
(*   SpecTools      the tool registry: execute, getToolByName and the      *)
(*                  pattern analysis of processMessageWithLogic            *)
(*   SpecFacts      the map of MemoryTool, written and read by its users   *)
(*   SpecStartup    initializeApp and startServer, then the store in use   *)
(*   SpecDelivery   the three handlers of an inbound message and the texts *)
(*                  each sends to the user                                 *)
(*   SpecSignature  WebhookService.verifyWebhookSignature                  *)
(***************************************************************************)
EXTENDS Integers, Sequences, FiniteSets, TLC

(***************************************************************************)
(* Bounds of the model.                                                    *)
(***************************************************************************)
\* total number of entries, changes and messages of a built webhook payload
MaxNodes == 4
\* Memory Store calls made in one behaviour
MaxCalls == 2
\* conversation turns started in one behaviour
MaxTurns == 1
\* POST requests received in one behaviour
MaxRequests == 1
\* operations of the tool registry called in one behaviour
MaxToolCalls == 1
\* inbound messages handed to a reply handler in one behaviour
MaxDeliveries == 2
\* text messages of a conversation handed to the agent in one behaviour
MaxMessages == 2

VARIABLES
    \* ---- GET /webhook (handshake)
    hsPhase,      \* "request" | "done"
    hsQuery,      \* the query parameters hub.mode, hub.verify_token, hub.challenge
    hsVerify,     \* what verifyWebhook returned
    hsResponse,   \* the HTTP response of the GET route
    \* ---- processWebhookPayload on a payload under construction
    plPhase,      \* "build" | "done"
    plPayload,    \* the raw payload
    plResult,     \* what processWebhookPayload returned
    \* ---- the Memory Store
    isDatabaseAvailable,  \* the availability flag of the memory module
    dbReachable,          \* whether PostgreSQL answers (the environment)
    db,                   \* the tables: users, conversations, messages, sessions
    calls,                \* per task, the Memory Store call it made last
    nCalls,               \* calls made so far
    \* ---- WhatsAppAgent
    turns,                \* per task, the processTextMessage it runs
    nTurns,               \* turns started so far
    \* ---- POST /webhook
    wh,                   \* per task, the request the POST route handles
    bg,                   \* per task, the setImmediate callback of its request
    nRequests,            \* requests received so far
    \* ---- the tool registry
    tools,                \* the registry: the tools of AVAILABLE_TOOLS
    memory,               \* the map of MemoryTool
    tlCall,               \* the operation of the registry called last
    tlResult,             \* what it returned
    nToolCalls,           \* operations of the registry called so far
    mtRead,               \* what getMemory or getAllMemory returned last
    \* ---- startup (initializeApp, startServer)
    appPc,                \* where initializeApp stands, up to "listening"
    databaseUrl,          \* whether config.databaseUrl is set
    appDatabaseAvailable, \* isDatabaseAvailable of the entry module
    cleanedSessions,      \* what the startup cleanup returned, NotCleaned before
    \* ---- the handlers that answer an inbound message
    dl,                   \* per task, the handler run of its inbound message
    nDeliveries,          \* inbound messages handled so far
    \* ---- verifyWebhookSignature
    sigPhase,             \* "call" | "done"
    sigInput,             \* the X-Hub-Signature-256 header and the raw body
    sigResult             \* what verifyWebhookSignature returned

hsVars == <<hsPhase, hsQuery, hsVerify, hsResponse>>
plVars == <<plPhase, plPayload, plResult>>
memVars == <<isDatabaseAvailable, dbReachable, db, calls, nCalls>>
turnVars == <<turns, nTurns>>
whVars == <<wh, bg, nRequests>>
toolVars == <<tools, memory, tlCall, tlResult, nToolCalls, mtRead>>
appVars == <<appPc, databaseUrl, appDatabaseAvailable, cleanedSessions>>
dlVars == <<dl, nDeliveries>>
sigVars == <<sigPhase, sigInput, sigResult>>
vars == <<hsVars, plVars, memVars, turnVars, whVars, toolVars, appVars, dlVars, sigVars>>

(***************************************************************************)
(* JavaScript values used by the routes.                                   *)
(***************************************************************************)
\* a query parameter: a string, or undefined when the request omits it
Undefined == [defined |-> FALSE, str |-> ""]
Str(s) == [defined |-> TRUE, str |-> s]
\* `x || ''` on a string-or-undefined value
OrEmpty(v) == IF v.defined /\ v.str # "" THEN v.str ELSE ""

\* string | null, or a thrown exception
Returned(s) == [threw |-> FALSE, isNull |-> FALSE, value |-> s]
ReturnedNull == [threw |-> FALSE, isNull |-> TRUE, value |-> ""]
Thrown == [threw |-> TRUE, isNull |-> TRUE, value |-> ""]

(***************************************************************************)
(* WebhookService.verifyWebhook and the GET route.                         *)
(***************************************************************************)
\* config.metaVerifyToken: META_VERIFY_TOKEN, a string of at least one character
verifyToken == "secret-token"

\* the mutant drops the check of the challenge
Mut_verifyWebhook_noChallengeCheck(mode, token, challenge) ==
    IF mode # "subscribe" THEN ReturnedNull
    ELSE IF token # verifyToken THEN ReturnedNull
    ELSE Returned(challenge)

verifyWebhook(mode, token, challenge) ==
    IF mode # "subscribe" THEN ReturnedNull
    ELSE IF token # verifyToken THEN ReturnedNull
    ELSE IF challenge = "" THEN ReturnedNull
    ELSE Returned(challenge)

HttpResponse(status, body) == [status |-> status, body |-> body]
NoResponse == HttpResponse(0, "")

\* the mutant passes the raw query parameters on: a missing one is undefined,
\* verifyWebhook throws on it and the route answers 500
Mut_webhookGet_rawQuery(query) ==
    IF ~query.mode.defined \/ ~query.token.defined \/ ~query.challenge.defined
    THEN HttpResponse(500, "Error interno")
    ELSE LET result == verifyWebhook(query.mode.str, query.token.str, query.challenge.str)
         IN  IF result.isNull THEN HttpResponse(403, "Verificacion fallida")
             ELSE HttpResponse(200, result.value)

webhookGet(query) ==
    LET result == verifyWebhook(OrEmpty(query.mode), OrEmpty(query.token),
                                OrEmpty(query.challenge))
    IN  IF result.threw THEN HttpResponse(500, "Error interno")
        ELSE IF result.isNull THEN HttpResponse(403, "Verificacion fallida")
        ELSE HttpResponse(200, result.value)

QueryModes == {Undefined, Str(""), Str("subscribe"), Str("unsubscribe")}
QueryTokens == {Undefined, Str(""), Str(verifyToken), Str("wrong-token")}
QueryChallenges == {Undefined, Str(""), Str("1158201444"), Str("challenge-b")}
Queries == [mode : QueryModes, token : QueryTokens, challenge : QueryChallenges]

HandshakeInit ==
    /\ hsPhase = "request"
    /\ hsQuery \in Queries
    /\ hsVerify = ReturnedNull
    /\ hsResponse = NoResponse

HandshakeIdle ==
    /\ hsPhase = "idle"
    /\ hsQuery = [mode |-> Undefined, token |-> Undefined, challenge |-> Undefined]
    /\ hsVerify = ReturnedNull
    /\ hsResponse = NoResponse

\* GET /webhook: the route normalises the query, calls verifyWebhook and answers
GetWebhook ==
    /\ hsPhase = "request"
    /\ hsVerify' = verifyWebhook(OrEmpty(hsQuery.mode), OrEmpty(hsQuery.token),
                                 OrEmpty(hsQuery.challenge))
    /\ hsResponse' = webhookGet(hsQuery)
    /\ hsPhase' = "done"
    /\ UNCHANGED hsQuery


(***************************************************************************)
(* The webhook payload (WhatsAppWebhookPayload as it arrives: any JSON).   *)
(* kind: "null" (null or undefined body), "primitive" (a string, number or *)
(* boolean body) or "object".                                              *)
(***************************************************************************)
SupportedTypes == {"text", "image", "video", "audio", "document", "location", "contact"}

NullMessage == [isNull |-> TRUE, id |-> "", from |-> "", type |-> "",
                hasText |-> FALSE, body |-> "", audioId |-> ""]
Message(id, from, type, hasText, body) ==
    [isNull |-> FALSE, id |-> id, from |-> from, type |-> type,
     hasText |-> hasText, body |-> body, audioId |-> ""]
\* a media message of type audio with its audio.id ("" when it has none)
AudioMessage(id, from, audioId) ==
    [Message(id, from, "audio", FALSE, "") EXCEPT !.audioId = audioId]

NoValue == [present |-> FALSE, messaging_product |-> "", messages |-> <<>>,
            hasStatuses |-> FALSE]
NullChange == [isNull |-> TRUE, field |-> "", value |-> NoValue]
NullEntry == [isNull |-> TRUE, id |-> "", changesKind |-> "absent", changes |-> <<>>]

NullPayload == [kind |-> "null", object |-> "", entryKind |-> "absent", entry |-> <<>>]
PrimitivePayload == [kind |-> "primitive", object |-> "", entryKind |-> "absent",
                     entry |-> <<>>]

(***************************************************************************)
(* Strings.  A text is named by a string; Chars gives its characters, on   *)
(* which the string methods of the code work.                              *)
(***************************************************************************)
Chars(text) ==
    CASE text = "" -> <<>>
      [] text = "  " -> <<" ", " ">>
      [] text = "hola" -> <<"h", "o", "l", "a">>
      [] text = "Hola" -> <<"H", "o", "l", "a">>
      [] text = "ping" -> <<"p", "i", "n", "g">>
      [] text = "ok" -> <<"o", "k">>
      [] text = " ok " -> <<" ", "o", "k", " ">>
      [] text = "573001" -> <<"5", "7", "3", "0", "0", "1">>
      [] text = "573003" -> <<"5", "7", "3", "0", "0", "3">>
      [] text = "Ping" -> <<"P", "i", "n", "g">>
      [] text = "que tal" -> <<"q", "u", "e", " ", "t", "a", "l">>
      [] text = "la hora" -> <<"l", "a", " ", "h", "o", "r", "a">>
      [] text = "busca clima" -> <<"b", "u", "s", "c", "a", " ", "c", "l", "i", "m", "a">>
      [] text = "calcula 2+2" -> <<"c", "a", "l", "c", "u", "l", "a", " ", "2", "+", "2">>
      [] text = "2+2" -> <<"2", "+", "2">>
      [] text = "hora" -> <<"h", "o", "r", "a">>
      [] text = "tiempo" -> <<"t", "i", "e", "m", "p", "o">>
      [] text = "fecha" -> <<"f", "e", "c", "h", "a">>
      [] text = "buscar" -> <<"b", "u", "s", "c", "a", "r">>
      [] text = "busca" -> <<"b", "u", "s", "c", "a">>
      [] text = "investigar" -> <<"i", "n", "v", "e", "s", "t", "i", "g", "a", "r">>
      [] text = "investiga" -> <<"i", "n", "v", "e", "s", "t", "i", "g", "a">>
      [] text = "noticias" -> <<"n", "o", "t", "i", "c", "i", "a", "s">>
      [] text = "calcular" -> <<"c", "a", "l", "c", "u", "l", "a", "r">>
      [] text = "calcula" -> <<"c", "a", "l", "c", "u", "l", "a">>
      [] text = "suma" -> <<"s", "u", "m", "a">>
      [] text = "resta" -> <<"r", "e", "s", "t", "a">>
      [] text = "multiplica" -> <<"m", "u", "l", "t", "i", "p", "l", "i", "c", "a">>
      [] text = "divide" -> <<"d", "i", "v", "i", "d", "e">>
      [] text = "+" -> <<"+">>
      [] text = "-" -> <<"-">>
      [] text = "*" -> <<"*">>
      [] text = "/" -> <<"/">>
      [] text = "gracias" -> <<"g", "r", "a", "c", "i", "a", "s">>
      [] text = "adios" -> <<"a", "d", "i", "o'", "s">>    \* "o'" is o with acute accent
      [] text = "ayuda" -> <<"a", "y", "u", "d", "a">>
      [] text = "disculpa" -> <<"d", "i", "s", "c", "u", "l", "p", "a">>
      [] text = "buenos" -> <<"b", "u", "e", "n", "o", "s">>
      [] text = "chau" -> <<"c", "h", "a", "u">>
      [] text = "clima" -> <<"c", "l", "i", "m", "a">>
      [] text = "saludo" -> <<"s", "a", "l", "u", "d", "o">>
      [] text = "hello" -> <<"h", "e", "l", "l", "o">>
      [] text = "help" -> <<"h", "e", "l", "p">>
      [] text = "thank" -> <<"t", "h", "a", "n", "k">>
      [] text = "calc" -> <<"c", "a", "l", "c">>
      [] text = "translate" -> <<"t", "r", "a", "n", "s", "l", "a", "t", "e">>
      [] text = "calcula 2+2*3" -> <<"c", "a", "l", "c", "u", "l", "a", " ", "2", "+", "2", "*", "3">>
      [] text = "calcular 2+2*3" -> <<"c", "a", "l", "c", "u", "l", "a", "r", " ", "2", "+", "2", "*", "3">>
      [] text = "calcula 7" -> <<"c", "a", "l", "c", "u", "l", "a", " ", "7">>
      [] text = "2+2*3" -> <<"2", "+", "2", "*", "3">>
      [] text = "(2+2)*3" -> <<"(", "2", "+", "2", ")", "*", "3">>
      [] text = "8/2" -> <<"8", "/", "2">>
      [] text = "1/0" -> <<"1", "/", "0">>
      [] text = "2+" -> <<"2", "+">>
      [] text = "2--2" -> <<"2", "-", "-", "2">>
      [] text = "7/2" -> <<"7", "/", "2">>
      [] text = "abc" -> <<"a", "b", "c">>
      [] text = "2+2; x" -> <<"2", "+", "2", ";", " ", "x">>
      [] text = "buenos ayuda" -> <<"b", "u", "e", "n", "o", "s", " ", "a", "y", "u", "d", "a">>
      [] text = "greeting" -> <<"g", "r", "e", "e", "t", "i", "n", "g">>
      [] text = "thanks" -> <<"t", "h", "a", "n", "k", "s">>
      [] text = "goodbye" -> <<"g", "o", "o", "d", "b", "y", "e">>
      [] text = "apology" -> <<"a", "p", "o", "l", "o", "g", "y">>
      [] text = "toString" -> <<"t", "o", "S", "t", "r", "i", "n", "g">>
      [] text = "constructor" -> <<"c", "o", "n", "s", "t", "r", "u", "c", "t", "o", "r">>
      [] text = "valueOf" -> <<"v", "a", "l", "u", "e", "O", "f">>
      [] text = "hasOwnProperty" -> <<"h", "a", "s", "O", "w", "n", "P", "r", "o", "p", "e", "r", "t", "y">>
      [] text = "__proto__" -> <<"_", "_", "p", "r", "o", "t", "o", "_", "_">>
      [] text = "info" -> <<"i", "n", "f", "o">>
      [] text = "u1" -> <<"u", "1">>
      [] text = "u2" -> <<"u", "2">>
      [] text = "recuerda mi clave" -> <<"r", "e", "c", "u", "e", "r", "d", "a", " ", "m", "i", " ", "c", "l", "a", "v", "e">>
      [] text = "hola recuerda" -> <<"h", "o", "l", "a", " ", "r", "e", "c", "u", "e", "r", "d", "a">>
      [] text = "guarda la hora" -> <<"g", "u", "a", "r", "d", "a", " ", "l", "a", " ", "h", "o", "r", "a">>
      [] text = "recuerda" -> <<"r", "e", "c", "u", "e", "r", "d", "a">>
      [] text = "guarda" -> <<"g", "u", "a", "r", "d", "a">>
      [] text = "memoria" -> <<"m", "e", "m", "o", "r", "i", "a">>

\* String.prototype.toLowerCase, on the capitals the texts have
LowerChar(c) == CASE c = "H" -> "h" [] c = "P" -> "p" [] OTHER -> c
ToLowerCase(s) == [i \in 1..Len(s) |-> LowerChar(s[i])]

\* String.prototype.includes
Includes(s, text) ==
    LET p == Chars(text) IN
    \E i \in 0..(Len(s) - Len(p)) : SubSeq(s, i + 1, i + Len(p)) = p

\* s.replace(/^(a|b|...)/i, ''), the alternatives tried in their order
RECURSIVE ReplacePrefix(_, _, _)
ReplacePrefix(s, alternatives, k) ==
    IF k > Len(alternatives) THEN s
    ELSE LET p == Chars(alternatives[k]) IN
         IF Len(p) <= Len(s) /\ ToLowerCase(SubSeq(s, 1, Len(p))) = p
         THEN SubSeq(s, Len(p) + 1, Len(s))
         ELSE ReplacePrefix(s, alternatives, k + 1)

\* String.prototype.trim
WhitespaceChars == {" ", "\t", "\n"}

RECURSIVE TrimStart(_)
TrimStart(s) ==
    IF s = <<>> THEN <<>>
    ELSE IF Head(s) \in WhitespaceChars THEN TrimStart(Tail(s))
    ELSE s

RECURSIVE TrimEnd(_)
TrimEnd(s) ==
    IF s = <<>> THEN <<>>
    ELSE IF s[Len(s)] \in WhitespaceChars THEN TrimEnd(SubSeq(s, 1, Len(s) - 1))
    ELSE s

Trim(s) == TrimEnd(TrimStart(s))

(***************************************************************************)
(* WebhookService: validation and extraction.                              *)
(***************************************************************************)
Valid == [isValid |-> TRUE, error |-> ""]
Invalid(error) == [isValid |-> FALSE, error |-> error]

\* the WebhookProcessingResult; hasShouldRespond = FALSE is an undefined shouldRespond
Rejected(error) ==
    [threw |-> FALSE, success |-> FALSE, error |-> error, hasMessage |-> FALSE, message |-> NullMessage,
     eventType |-> "", hasShouldRespond |-> FALSE, shouldRespond |-> FALSE]
AcceptedNoMessage ==
    [threw |-> FALSE, success |-> TRUE, error |-> "", hasMessage |-> FALSE, message |-> NullMessage,
     eventType |-> "", hasShouldRespond |-> TRUE, shouldRespond |-> FALSE]
AcceptedMessage(message, eventType, shouldRespond) ==
    [threw |-> FALSE, success |-> TRUE, error |-> "", hasMessage |-> TRUE, message |-> message,
     eventType |-> eventType, hasShouldRespond |-> TRUE, shouldRespond |-> shouldRespond]

\* an exception leaving processWebhookPayload
ProcessingThrew == [Rejected("") EXCEPT !.threw = TRUE]

\* the loops of validateWebhookPayload: "ok", "throw" (a TypeError on a null
\* element) or the diagnostic of the first violation in document order
\* the mutant forgets the check of a messages change's product tag
Mut_validateChanges_noProductCheck(changes, j) ==
    IF \E k \in j..Len(changes) : changes[k].isNull THEN "throw" ELSE "ok"

RECURSIVE validateChanges(_, _)
validateChanges(changes, j) ==
    IF j > Len(changes) THEN "ok"
    ELSE LET change == changes[j] IN
         IF change.isNull THEN "throw"
         ELSE IF change.field # "messages" THEN validateChanges(changes, j + 1)
         ELSE IF ~change.value.present \/ change.value.messaging_product = ""
                 \/ change.value.messaging_product # "whatsapp"
              THEN "Valor de cambio invalido"
         ELSE validateChanges(changes, j + 1)

RECURSIVE validateEntries(_, _)
validateEntries(entries, i) ==
    IF i > Len(entries) THEN "ok"
    ELSE LET entry == entries[i] IN
         IF entry.isNull THEN "throw"
         ELSE IF entry.id = "" \/ entry.changesKind # "array"
              THEN "Entrada invalida: faltan campos requeridos"
         ELSE LET r == validateChanges(entry.changes, 1) IN
              IF r # "ok" THEN r ELSE validateEntries(entries, i + 1)

validateWebhookPayload(payload) ==
    IF payload.kind # "object" THEN Invalid("Payload invalido o vacio")
    ELSE IF payload.object # "whatsapp_business_account"
         THEN Invalid("Object debe ser whatsapp_business_account")
    ELSE IF payload.entryKind # "array" \/ Len(payload.entry) = 0
         THEN Invalid("Entry debe ser un array no vacio")
    ELSE LET r == validateEntries(payload.entry, 1) IN
         IF r = "ok" THEN Valid
         ELSE IF r = "throw" THEN Invalid("Error de validacion: TypeError")
         ELSE Invalid(r)

determineEventType(message) ==
    IF message.type \in SupportedTypes THEN message.type ELSE "text"

isProcessableMessage(message) ==
    /\ message.from # ""
    /\ message.type \in SupportedTypes

\* the mutant answers text messages only
Mut_shouldAutoRespond_textOnly(message) == message.type = "text"

\* the mutant answers every accepted message
Mut_shouldAutoRespond_always(message) == TRUE

shouldAutoRespond(message) == message.type = "text" \/ message.type = "audio"

\* a loop's outcome: nothing found, a result, or an exception leaving the loop
NoneFound == [kind |-> "none", result |-> AcceptedNoMessage]
Found(result) == [kind |-> "result", result |-> result]
LoopThrew == [kind |-> "threw", result |-> AcceptedNoMessage]

\* the mutant compares the body with '' and forgets to trim it
Mut_processIncomingMessage_noTrim(message) ==
    IF message.isNull THEN LoopThrew
    ELSE IF ~isProcessableMessage(message) THEN NoneFound
    ELSE IF message.type = "text" /\ (~message.hasText \/ Chars(message.body) = <<>>)
         THEN NoneFound
    ELSE Found(AcceptedMessage(message, determineEventType(message),
                               shouldAutoRespond(message)))

\* processIncomingMessage: a null message makes the try block throw, and the
\* catch block reads message.id again, so the exception leaves the method
processIncomingMessage(message) ==
    IF message.isNull THEN LoopThrew
    ELSE IF ~isProcessableMessage(message) THEN NoneFound
    ELSE IF message.type = "text" /\ (~message.hasText \/ Trim(Chars(message.body)) = <<>>)
         THEN NoneFound
    ELSE Found(AcceptedMessage(message, determineEventType(message),
                               shouldAutoRespond(message)))

RECURSIVE processMessages(_, _)
processMessages(messages, k) ==
    IF k > Len(messages) THEN NoneFound
    ELSE LET r == processIncomingMessage(messages[k]) IN
         IF r.kind = "none" THEN processMessages(messages, k + 1) ELSE r

RECURSIVE processChanges(_, _)
processChanges(changes, j) ==
    IF j > Len(changes) THEN NoneFound
    ELSE LET change == changes[j] IN
         IF change.isNull THEN LoopThrew
         ELSE IF change.field # "messages" THEN processChanges(changes, j + 1)
         ELSE IF ~change.value.present THEN LoopThrew
         ELSE LET r == processMessages(change.value.messages, 1) IN
              IF r.kind = "none" THEN processChanges(changes, j + 1) ELSE r

\* processWebhookEntry: its catch block turns any exception into null; the catch
\* block reads entry.id, so a null entry makes the exception leave the method
processWebhookEntry(entry) ==
    IF entry.isNull THEN LoopThrew
    ELSE LET r == processChanges(entry.changes, 1) IN
         IF r.kind = "threw" THEN NoneFound ELSE r

RECURSIVE processEntries(_, _)
processEntries(entries, i) ==
    IF i > Len(entries) THEN NoneFound
    ELSE LET r == processWebhookEntry(entries[i]) IN
         IF r.kind = "none" THEN processEntries(entries, i + 1) ELSE r

\* processWebhookPayload: its catch block builds the diagnostic with
\* JSON.stringify(payload).substring, which throws when the payload is undefined
processWebhookPayload(payload) ==
    LET validationResult == validateWebhookPayload(payload) IN
    IF ~validationResult.isValid THEN Rejected(validationResult.error)
    ELSE LET r == processEntries(payload.entry, 1) IN
         IF r.kind = "result" THEN r.result
         ELSE IF r.kind = "threw"
              THEN IF payload.kind = "null" THEN ProcessingThrew
                   ELSE Rejected("Error procesando webhook: TypeError")
         ELSE AcceptedNoMessage

(***************************************************************************)
(* Building a payload: the provider (or any client) composes a delivery,   *)
(* element by element, then posts it.                                      *)
(***************************************************************************)
MessageSamples ==
    { Message("wamid.1", "573001", "text", TRUE, "hola"),
      Message("wamid.2", "573001", "text", TRUE, "  "),
      Message("wamid.3", "573001", "text", FALSE, ""),
      AudioMessage("wamid.4", "573001", "media.1"),
      Message("wamid.5", "573001", "image", FALSE, ""),
      Message("wamid.12", "573001", "video", FALSE, ""),
      Message("wamid.13", "573001", "document", FALSE, ""),
      Message("wamid.14", "573001", "location", FALSE, ""),
      Message("wamid.15", "573001", "contact", FALSE, ""),
      Message("wamid.6", "", "text", TRUE, " ok "),
      Message("wamid.7", "573001", "sticker", FALSE, ""),
      NullMessage }

ValueSamples ==
    { NoValue }
    \cup { [present |-> TRUE, messaging_product |-> mp, messages |-> <<>>,
            hasStatuses |-> st] :
           mp \in {"", "instagram", "whatsapp"}, st \in {FALSE} }
    \cup { [present |-> TRUE, messaging_product |-> "whatsapp", messages |-> <<>>,
            hasStatuses |-> TRUE] }

ChangeSamples ==
    { NullChange }
    \cup { [isNull |-> FALSE, field |-> f, value |-> v] :
           f \in {"messages", "statuses"}, v \in ValueSamples }

EntrySamples ==
    { NullEntry }
    \cup { [isNull |-> FALSE, id |-> id, changesKind |-> k, changes |-> <<>>] :
           id \in {"", "1029384756"}, k \in {"absent", "notarray", "array"} }

ObjectPayloads ==
    { [kind |-> "object", object |-> o, entryKind |-> k, entry |-> <<>>] :
      o \in {"", "page", "whatsapp_business_account"},
      k \in {"absent", "notarray", "array"} }

\* entries, changes and messages of a payload, counted together
RECURSIVE ChangesNodes(_, _)
ChangesNodes(changes, j) ==
    IF j > Len(changes) THEN 0
    ELSE 1 + Len(changes[j].value.messages) + ChangesNodes(changes, j + 1)

RECURSIVE EntriesNodes(_, _)
EntriesNodes(entries, i) ==
    IF i > Len(entries) THEN 0
    ELSE 1 + ChangesNodes(entries[i].changes, 1) + EntriesNodes(entries, i + 1)

PayloadNodes(payload) == EntriesNodes(payload.entry, 1)

PayloadInit ==
    /\ plPhase = "build"
    /\ plPayload \in {NullPayload, PrimitivePayload} \cup ObjectPayloads
    /\ plResult = Rejected("")

PayloadIdle ==
    /\ plPhase = "idle"
    /\ plPayload = NullPayload
    /\ plResult = Rejected("")

CanGrow == plPhase = "build" /\ PayloadNodes(plPayload) < MaxNodes

\* one more element of payload.entry
AddEntry ==
    /\ CanGrow
    /\ plPayload.entryKind = "array"
    /\ \E e \in EntrySamples :
           plPayload' = [plPayload EXCEPT !.entry = Append(@, e)]
    /\ UNCHANGED <<plPhase, plResult>>

\* one more element of the last entry's changes
AddChange ==
    /\ CanGrow
    /\ Len(plPayload.entry) > 0
    /\ LET i == Len(plPayload.entry) IN
       /\ ~plPayload.entry[i].isNull
       /\ plPayload.entry[i].changesKind = "array"
       /\ \E c \in ChangeSamples :
              plPayload' = [plPayload EXCEPT !.entry[i].changes = Append(@, c)]
    /\ UNCHANGED <<plPhase, plResult>>

\* one more element of the last change's value.messages
AddMessage ==
    /\ CanGrow
    /\ Len(plPayload.entry) > 0
    /\ LET i == Len(plPayload.entry) IN
       /\ Len(plPayload.entry[i].changes) > 0
       /\ LET j == Len(plPayload.entry[i].changes) IN
          /\ ~plPayload.entry[i].changes[j].isNull
          /\ plPayload.entry[i].changes[j].value.present
          /\ \E m \in MessageSamples :
                 plPayload' = [plPayload EXCEPT
                                  !.entry[i].changes[j].value.messages = Append(@, m)]
    /\ UNCHANGED <<plPhase, plResult>>

\* the payload is handed to processWebhookPayload
ProcessPayload ==
    /\ plPhase = "build"
    /\ plResult' = processWebhookPayload(plPayload)
    /\ plPhase' = "done"
    /\ UNCHANGED plPayload

(***************************************************************************)
(* The durable store: the PostgreSQL tables of the schema, and             *)
(* executeQuery.  A UUID is Uuid(n); the ids AgentMemory makes up without  *)
(* the store (`mem_<userId>_<time>`, `msg_<conversationId>_<time>`) are    *)
(* MemConversationId and MemMessageId, their time stamp left out.          *)
(* expires_at is "null", "past" or "future" relative to NOW().             *)
(***************************************************************************)
Uuid(n) == [kind |-> "uuid", n |-> n, src |-> "db"]
EmptyId == [kind |-> "empty", n |-> 0, src |-> ""]
MemConversationId(userId) == [kind |-> "mem", n |-> userId.n, src |-> userId.kind]
MemMessageId(conversationId) ==
    [kind |-> "msg", n |-> conversationId.n, src |-> conversationId.kind]

\* the AgentState
AgentState(sessionId, userId, messages, currentNode) ==
    [session_id |-> sessionId, user_id |-> userId, messages |-> messages,
     current_node |-> currentNode]
NoAgentState == AgentState(EmptyId, EmptyId, <<>>, "")
Turn(role, content) == [role |-> role, content |-> content]

\* what a statement gives: the store after it, the error code ("" for none) and
\* the rows of result.rows
SqlResult(d, code, rows) == [db |-> d, code |-> code, rows |-> rows]

\* the mutant is a messages table without UNIQUE on whatsapp_message_id
Mut_MessagesUniqueViolation_none(d, whatsappMessageId) == FALSE

\* messages.whatsapp_message_id VARCHAR(255) UNIQUE: NULLs never conflict
MessagesUniqueViolation(d, whatsappMessageId) ==
    /\ whatsappMessageId.defined
    /\ \E m \in d.messages : m.whatsapp_message_id = whatsappMessageId

\* SELECT * FROM users WHERE wa_id = $1
SelectUserByWaId(d, waId) ==
    LET found == {u \in d.users : u.wa_id = waId} IN
    SqlResult(d, "", IF found = {} THEN <<>> ELSE <<CHOOSE u \in found : TRUE>>)

\* INSERT INTO users ... ON CONFLICT (wa_id) DO UPDATE SET phone_number,
\* profile_name = COALESCE(EXCLUDED.profile_name, users.profile_name) RETURNING *
UpsertUser(d, waId, phoneNumber, profileName) ==
    LET found == {u \in d.users : u.wa_id = waId} IN
    IF found = {}
    THEN LET row == [id |-> Uuid(d.nextId), wa_id |-> waId,
                     phone_number |-> phoneNumber, profile_name |-> profileName]
         IN  SqlResult([d EXCEPT !.users = @ \cup {row}, !.nextId = @ + 1], "", <<row>>)
    ELSE LET old == CHOOSE u \in found : TRUE
             row == [old EXCEPT !.phone_number = phoneNumber,
                                !.profile_name = IF profileName.defined
                                                 THEN profileName ELSE @]
         IN  SqlResult([d EXCEPT !.users = (@ \ {old}) \cup {row}], "", <<row>>)

\* SELECT c.* ... WHERE c.user_id = $1 ... ORDER BY c.updated_at DESC LIMIT 1
SelectUserConversations(d, userId) ==
    IF userId.kind # "uuid" THEN SqlResult(d, "22P02", <<>>)
    ELSE LET found == {c \in d.conversations : c.user_id = userId} IN
         SqlResult(d, "", IF found = {} THEN <<>>
                          ELSE <<CHOOSE c \in found :
                                     \A o \in found : o.updated_at <= c.updated_at>>)

\* INSERT INTO conversations (user_id, title) VALUES ($1, $2) RETURNING id
InsertConversation(d, userId) ==
    IF userId.kind # "uuid" THEN SqlResult(d, "22P02", <<>>)
    ELSE IF ~\E u \in d.users : u.id = userId THEN SqlResult(d, "23503", <<>>)
    ELSE LET row == [id |-> Uuid(d.nextId), user_id |-> userId, updated_at |-> d.clock]
         IN  SqlResult([d EXCEPT !.conversations = @ \cup {row}, !.nextId = @ + 1,
                                 !.clock = @ + 1], "", <<row>>)

\* INSERT INTO messages (conversation_id, direction, message_type, content,
\* whatsapp_message_id, timestamp) VALUES (...) RETURNING id
InsertMessage(d, conversationId, direction, messageType, content, whatsappMessageId) ==
    IF conversationId.kind # "uuid" THEN SqlResult(d, "22P02", <<>>)
    ELSE IF MessagesUniqueViolation(d, whatsappMessageId) THEN SqlResult(d, "23505", <<>>)
    ELSE IF ~\E c \in d.conversations : c.id = conversationId
         THEN SqlResult(d, "23503", <<>>)
    ELSE LET row == [id |-> Uuid(d.nextId), conversation_id |-> conversationId,
                     direction |-> direction, message_type |-> messageType,
                     content |-> content, whatsapp_message_id |-> whatsappMessageId]
         IN  SqlResult([d EXCEPT !.messages = @ \cup {row}, !.nextId = @ + 1], "", <<row>>)

\* UPDATE conversations SET updated_at = NOW() WHERE id = $1
UpdateConversationTimestamp(d, conversationId) ==
    IF conversationId.kind # "uuid" THEN SqlResult(d, "22P02", <<>>)
    ELSE SqlResult([d EXCEPT
                      !.conversations = {IF c.id = conversationId
                                         THEN [c EXCEPT !.updated_at = d.clock] ELSE c :
                                         c \in @},
                      !.clock = @ + 1], "", <<>>)

\* the mutant is a sessions table without UNIQUE on user_id, where the
\* statement never meets a conflict and inserts
Mut_UpsertSession_noUnique(d, userId, agentState) ==
    IF userId.kind # "uuid" THEN SqlResult(d, "22P02", <<>>)
    ELSE IF ~\E u \in d.users : u.id = userId THEN SqlResult(d, "23503", <<>>)
    ELSE LET row == [id |-> Uuid(d.nextId), user_id |-> userId,
                     agent_state |-> agentState, updated_at |-> d.clock,
                     expires_at |-> "null"]
         IN  SqlResult([d EXCEPT !.sessions = @ \cup {row}, !.nextId = @ + 1,
                                 !.clock = @ + 1], "", <<row>>)

\* INSERT INTO sessions (user_id, agent_state, updated_at) VALUES ($1, $2::jsonb, NOW())
\* ON CONFLICT (user_id) DO UPDATE SET agent_state, updated_at RETURNING id
UpsertSession(d, userId, agentState) ==
    IF userId.kind # "uuid" THEN SqlResult(d, "22P02", <<>>)
    ELSE LET found == {x \in d.sessions : x.user_id = userId} IN
         IF found # {}
         THEN LET old == CHOOSE x \in found : TRUE
                  row == [old EXCEPT !.agent_state = agentState, !.updated_at = d.clock]
              IN  SqlResult([d EXCEPT !.sessions = (@ \ {old}) \cup {row},
                                      !.clock = @ + 1], "", <<row>>)
         ELSE IF ~\E u \in d.users : u.id = userId THEN SqlResult(d, "23503", <<>>)
         ELSE LET row == [id |-> Uuid(d.nextId), user_id |-> userId,
                          agent_state |-> agentState, updated_at |-> d.clock,
                          expires_at |-> "null"]
              IN  SqlResult([d EXCEPT !.sessions = @ \cup {row}, !.nextId = @ + 1,
                                      !.clock = @ + 1], "", <<row>>)

\* SELECT agent_state FROM sessions WHERE user_id = $1
\* AND (expires_at IS NULL OR expires_at > NOW()) ORDER BY updated_at DESC LIMIT 1
SelectSession(d, userId) ==
    IF userId.kind # "uuid" THEN SqlResult(d, "22P02", <<>>)
    ELSE LET found == {x \in d.sessions : x.user_id = userId /\ x.expires_at # "past"} IN
         SqlResult(d, "", IF found = {} THEN <<>>
                          ELSE <<CHOOSE x \in found :
                                     \A o \in found : o.updated_at <= x.updated_at>>)

\* DELETE FROM sessions WHERE expires_at IS NOT NULL AND expires_at <= NOW()
\* (no RETURNING clause: result.rows is empty)
DeleteExpiredSessions(d) ==
    SqlResult([d EXCEPT !.sessions = {x \in @ : x.expires_at # "past"}], "", <<>>)

\* UPDATE sessions SET expires_at = $1 WHERE id = $2
UpdateSessionExpiry(d, sessionId, expiresAt) ==
    IF sessionId.kind # "uuid" THEN SqlResult(d, "22P02", <<>>)
    ELSE SqlResult([d EXCEPT !.sessions = {IF x.id = sessionId
                                           THEN [x EXCEPT !.expires_at = expiresAt] ELSE x :
                                           x \in @}], "", <<>>)

\* executeQuery: pool.query fails when the store cannot be reached, and any
\* error is logged and thrown again
executeQuery(reachable, d, result) ==
    IF ~reachable THEN SqlResult(d, "ECONNREFUSED", <<>>) ELSE result

(***************************************************************************)
(* Memory Store operations.  An operation is an async function: a call     *)
(* record holds its arguments, where it stands (pc "q1" or "q2": about to  *)
(* await that query; "done": settled) and how it settled (threw, code, the *)
(* value).  flagAtCall is isDatabaseAvailable when the call was made,      *)
(* queries counts the executeQuery calls it made.                          *)
(***************************************************************************)
NoUser == [id |-> EmptyId, wa_id |-> "", phone_number |-> "", profile_name |-> Undefined]

NoCall ==
    [op |-> "none", pc |-> "done", userId |-> EmptyId, agentState |-> NoAgentState,
     conversationId |-> EmptyId, direction |-> "", messageType |-> "", content |-> "",
     whatsappMessageId |-> Undefined, waId |-> "", profileName |-> Undefined,
     sessionId |-> EmptyId, expiresAt |-> "",
     flagAtCall |-> FALSE, flagAfter |-> FALSE, queries |-> 0,
     threw |-> FALSE, code |-> "", found |-> FALSE, resultId |-> EmptyId,
     resultState |-> NoAgentState, resultUser |-> NoUser, resultCount |-> 0]

Awaiting(call) == [call EXCEPT !.pc = "q1"]
Resolve(call) == [call EXCEPT !.pc = "done", !.threw = FALSE]
Reject(call, code) == [call EXCEPT !.pc = "done", !.threw = TRUE, !.code = code]
Queried(call) == [call EXCEPT !.queries = @ + 1]

\* the mutants are operations that go to the store whatever the flag says
Mut_AgentMemory_loadAgentState_noGuard(flag, userId) ==
    Awaiting([NoCall EXCEPT !.op = "loadAgentState", !.flagAtCall = flag,
                            !.userId = userId])

AgentMemory_loadAgentState(flag, userId) ==
    LET call == [NoCall EXCEPT !.op = "loadAgentState", !.flagAtCall = flag,
                               !.userId = userId]
    IN  IF ~flag THEN Resolve(call) ELSE Awaiting(call)

validateAgentState(agentState) ==
    IF agentState.session_id.kind = "empty" THEN "ValidationError" ELSE ""

AgentMemory_saveAgentState(flag, userId, agentState) ==
    LET call == [NoCall EXCEPT !.op = "saveAgentState", !.flagAtCall = flag,
                               !.userId = userId, !.agentState = agentState]
    IN  IF ~flag THEN Resolve(call)
        ELSE IF userId.kind = "empty" THEN Reject(call, "ValidationError")
        ELSE IF validateAgentState(agentState) # ""
             THEN Reject(call, validateAgentState(agentState))
        ELSE Awaiting(call)

AgentMemory_getOrCreateConversation(flag, userId) ==
    LET call == [NoCall EXCEPT !.op = "getOrCreateConversation", !.flagAtCall = flag,
                               !.userId = userId]
    IN  IF ~flag THEN [Resolve(call) EXCEPT !.resultId = MemConversationId(userId)]
        ELSE Awaiting(call)

AgentMemory_saveMessage(flag, conversationId, direction, messageType, content, whatsappMessageId) ==
    LET call == [NoCall EXCEPT !.op = "saveMessage", !.flagAtCall = flag,
                               !.conversationId = conversationId,
                               !.direction = direction, !.messageType = messageType,
                               !.content = content,
                               !.whatsappMessageId = whatsappMessageId]
    IN  IF ~flag THEN [Resolve(call) EXCEPT !.resultId = MemMessageId(conversationId)]
        ELSE IF \/ conversationId.kind = "empty" \/ direction = ""
                \/ messageType = "" \/ content = ""
             THEN Reject(call, "Error")
        ELSE Awaiting(call)

AgentMemory_cleanupExpiredSessions(flag) ==
    LET call == [NoCall EXCEPT !.op = "cleanupExpiredSessions", !.flagAtCall = flag]
    IN  IF ~flag THEN [Resolve(call) EXCEPT !.resultCount = 0] ELSE Awaiting(call)

\* SessionRepository.setSessionExpiry has no wrapper in AgentMemory and no flag
SetSessionExpiry(flag, sessionId, expiresAt) ==
    Awaiting([NoCall EXCEPT !.op = "setSessionExpiry", !.flagAtCall = flag,
                            !.sessionId = sessionId, !.expiresAt = expiresAt])

UserRepository_getUserByWaId(flag, waId) ==
    Awaiting([NoCall EXCEPT !.op = "getUserByWaId", !.flagAtCall = flag, !.waId = waId])

UserRepository_upsertUser(flag, waId, phoneNumber, profileName) ==
    Awaiting([NoCall EXCEPT !.op = "upsertUser", !.flagAtCall = flag, !.waId = waId,
                            !.profileName = profileName])

\* One await of executeQuery inside an operation: the store after it and the
\* call after it.  Every catch block logs and throws again.
Stepped(r, call) == [db |-> r.db, call |-> call]

SessionRepository_getAgentState(reachable, d, call) ==
    LET r == executeQuery(reachable, d, SelectSession(d, call.userId))
        c == Queried(call)
    IN  IF r.code # "" THEN Stepped(r, Reject(c, r.code))
        ELSE IF r.rows = <<>> THEN Stepped(r, Resolve(c))
        ELSE Stepped(r, [Resolve(c) EXCEPT !.found = TRUE,
                                           !.resultState = r.rows[1].agent_state])

SessionRepository_saveAgentState(reachable, d, call) ==
    LET r == executeQuery(reachable, d, UpsertSession(d, call.userId, call.agentState))
        c == Queried(call)
    IN  IF r.code # "" THEN Stepped(r, Reject(c, r.code))
        ELSE Stepped(r, [Resolve(c) EXCEPT !.resultId = r.rows[1].id])

getOrCreateConversation(reachable, d, call) ==
    LET c == Queried(call) IN
    IF call.pc = "q1"
    THEN LET r == executeQuery(reachable, d, SelectUserConversations(d, call.userId)) IN
         IF r.code # "" THEN Stepped(r, Reject(c, r.code))
         ELSE IF Len(r.rows) > 0
              THEN Stepped(r, [Resolve(c) EXCEPT !.found = TRUE,
                                                 !.resultId = r.rows[1].id])
         ELSE Stepped(r, [c EXCEPT !.pc = "q2"])
    ELSE LET r == executeQuery(reachable, d, InsertConversation(d, call.userId)) IN
         IF r.code # "" THEN Stepped(r, Reject(c, r.code))
         ELSE Stepped(r, [Resolve(c) EXCEPT !.resultId = r.rows[1].id])

MessageRepository_saveMessage(reachable, d, call) ==
    LET c == Queried(call) IN
    IF call.pc = "q1"
    THEN LET r == executeQuery(reachable, d,
                      InsertMessage(d, call.conversationId, call.direction,
                                    call.messageType, call.content,
                                    call.whatsappMessageId)) IN
         IF r.code # "" THEN Stepped(r, Reject(c, r.code))
         ELSE Stepped(r, [c EXCEPT !.pc = "q2", !.resultId = r.rows[1].id])
    ELSE LET r == executeQuery(reachable, d,
                      UpdateConversationTimestamp(d, call.conversationId)) IN
         IF r.code # "" THEN Stepped(r, Reject(c, r.code))
         ELSE Stepped(r, Resolve(c))

SessionRepository_cleanupExpiredSessions(reachable, d, call) ==
    LET r == executeQuery(reachable, d, DeleteExpiredSessions(d))
        c == Queried(call)
    IN  IF r.code # "" THEN Stepped(r, Reject(c, r.code))
        ELSE Stepped(r, [Resolve(c) EXCEPT !.resultCount = Len(r.rows)])

SessionRepository_setSessionExpiry(reachable, d, call) ==
    LET r == executeQuery(reachable, d,
                 UpdateSessionExpiry(d, call.sessionId, call.expiresAt))
        c == Queried(call)
    IN  IF r.code # "" THEN Stepped(r, Reject(c, r.code)) ELSE Stepped(r, Resolve(c))

getUserByWaId(reachable, d, call) ==
    LET r == executeQuery(reachable, d, SelectUserByWaId(d, call.waId))
        c == Queried(call)
    IN  IF r.code # "" THEN Stepped(r, Reject(c, r.code))
        ELSE IF r.rows = <<>> THEN Stepped(r, Resolve(c))
        ELSE Stepped(r, [Resolve(c) EXCEPT !.found = TRUE, !.resultUser = r.rows[1]])

upsertUser(reachable, d, call) ==
    LET r == executeQuery(reachable, d,
                 UpsertUser(d, call.waId, call.waId, call.profileName))
        c == Queried(call)
    IN  IF r.code # "" THEN Stepped(r, Reject(c, r.code))
        ELSE Stepped(r, [Resolve(c) EXCEPT !.found = TRUE, !.resultUser = r.rows[1]])

\* the pending await of a call, whichever operation it belongs to
AwaitQuery(reachable, d, call) ==
    CASE call.op = "loadAgentState" -> SessionRepository_getAgentState(reachable, d, call)
      [] call.op = "saveAgentState" -> SessionRepository_saveAgentState(reachable, d, call)
      [] call.op = "getOrCreateConversation" -> getOrCreateConversation(reachable, d, call)
      [] call.op = "saveMessage" -> MessageRepository_saveMessage(reachable, d, call)
      [] call.op = "cleanupExpiredSessions" ->
             SessionRepository_cleanupExpiredSessions(reachable, d, call)
      [] call.op = "setSessionExpiry" ->
             SessionRepository_setSessionExpiry(reachable, d, call)
      [] call.op = "getUserByWaId" -> getUserByWaId(reachable, d, call)
      [] call.op = "upsertUser" -> upsertUser(reachable, d, call)

(***************************************************************************)
(* The Memory Store under concurrent callers.  Each task is an async       *)
(* caller (a background task of a webhook, the startup code, the cleanup   *)
(* timer); it has one call pending at a time and many tasks interleave at  *)
(* their awaits.                                                           *)
(***************************************************************************)
Tasks == {"t1", "t2"}

User1 == [id |-> Uuid(1), wa_id |-> "573001", phone_number |-> "573001",
          profile_name |-> Str("Ana")]
User2 == [id |-> Uuid(2), wa_id |-> "573002", phone_number |-> "573002",
          profile_name |-> Undefined]
Conversation1 == [id |-> Uuid(3), user_id |-> Uuid(1), updated_at |-> 0]
StoredState == AgentState(Uuid(3), Uuid(1), <<Turn("user", "hola")>>, "start")
\* a session the store holds from before, with an expiry date set
Session1 == [id |-> Uuid(4), user_id |-> Uuid(1), agent_state |-> StoredState,
             updated_at |-> 0, expires_at |-> "future"]

Database(sessions) ==
    [users |-> {User1, User2}, conversations |-> {Conversation1}, messages |-> {},
     sessions |-> sessions, nextId |-> 5, clock |-> 1]

UserIds == {Uuid(1), Uuid(2)}
StatesToSave ==
    {AgentState(Uuid(3), Uuid(1), <<Turn("user", "hola"), Turn("assistant", "ok")>>, "start"),
     AgentState(MemConversationId(Uuid(2)), Uuid(2), <<Turn("user", "hola")>>, "start"),
     AgentState(EmptyId, Uuid(2), <<>>, "start")}
MessagesToSave ==
    {[conversationId |-> Uuid(3), direction |-> "incoming", content |-> "hola",
      whatsappMessageId |-> Str("wamid.1")],
     [conversationId |-> Uuid(3), direction |-> "incoming", content |-> "hola",
      whatsappMessageId |-> Str("wamid.2")],
     [conversationId |-> MemConversationId(Uuid(1)), direction |-> "incoming",
      content |-> "hola", whatsappMessageId |-> Str("wamid.1")],
     [conversationId |-> Uuid(3), direction |-> "outgoing", content |-> "ok",
      whatsappMessageId |-> Undefined]}

\* a settled call remembers the flag as the operation left it
Settle(call, flag) == IF call.pc = "done" THEN [call EXCEPT !.flagAfter = flag] ELSE call

MemoryIdle ==
    /\ isDatabaseAvailable = FALSE
    /\ dbReachable = FALSE
    /\ db = Database({})
    /\ calls = [t \in Tasks |-> NoCall]
    /\ nCalls = 0

\* after startup: the flag is what testConnection found, and PostgreSQL may
\* have gone away or come back since
MemoryInit ==
    /\ isDatabaseAvailable \in BOOLEAN
    /\ dbReachable \in BOOLEAN
    /\ db = Database({Session1})
    /\ calls = [t \in Tasks |-> NoCall]
    /\ nCalls = 0

CanCall(t) == calls[t].pc = "done" /\ nCalls < MaxCalls

Issue(t, call) ==
    /\ calls' = [calls EXCEPT ![t] = Settle(call, isDatabaseAvailable)]
    /\ nCalls' = nCalls + 1
    /\ UNCHANGED <<isDatabaseAvailable, dbReachable, db>>

CallLoadAgentState(t) ==
    /\ CanCall(t)
    /\ \E userId \in UserIds :
           Issue(t, AgentMemory_loadAgentState(isDatabaseAvailable, userId))

CallSaveAgentState(t) ==
    /\ CanCall(t)
    /\ \E agentState \in StatesToSave :
           Issue(t, AgentMemory_saveAgentState(isDatabaseAvailable, agentState.user_id,
                                               agentState))

CallGetOrCreateConversation(t) ==
    /\ CanCall(t)
    /\ \E userId \in UserIds :
           Issue(t, AgentMemory_getOrCreateConversation(isDatabaseAvailable, userId))

CallSaveMessage(t) ==
    /\ CanCall(t)
    /\ \E m \in MessagesToSave :
           Issue(t, AgentMemory_saveMessage(isDatabaseAvailable, m.conversationId,
                                            m.direction, "text", m.content,
                                            m.whatsappMessageId))

CallCleanupExpiredSessions(t) ==
    /\ CanCall(t)
    /\ Issue(t, AgentMemory_cleanupExpiredSessions(isDatabaseAvailable))

SessionIds == {Session1.id, Uuid(5)}
ExpiryDates == {"past", "future"}

CallSetSessionExpiry(t) ==
    /\ CanCall(t)
    /\ \E sessionId \in SessionIds, expiresAt \in ExpiryDates :
           Issue(t, SetSessionExpiry(isDatabaseAvailable, sessionId, expiresAt))

\* wa_ids and profile names of callers: a stored user and one never seen;
\* undefined and null are both sent to PostgreSQL as NULL
WaIds == {User1.wa_id, "573009"}
ProfileNames == {Undefined, Str(""), Str("Bea")}

CallUpsertUser(t) ==
    /\ CanCall(t)
    /\ \E waId \in WaIds, profileName \in ProfileNames :
           Issue(t, UserRepository_upsertUser(isDatabaseAvailable, waId, waId, profileName))

\* the query a call awaits is answered, and the call runs on to its next await
\* or to its end
QueryAnswered(t) ==
    /\ calls[t].pc # "done"
    /\ LET after == AwaitQuery(dbReachable, db, calls[t]) IN
       /\ db' = after.db
       /\ calls' = [calls EXCEPT ![t] = Settle(after.call, isDatabaseAvailable)]
    /\ UNCHANGED <<isDatabaseAvailable, dbReachable, nCalls>>

setDatabaseAvailability(available) ==
    /\ isDatabaseAvailable # available
    /\ isDatabaseAvailable' = available
    /\ UNCHANGED <<dbReachable, db, calls, nCalls>>

ConnectivityChanges ==
    /\ dbReachable' = ~dbReachable
    /\ UNCHANGED <<isDatabaseAvailable, db, calls, nCalls>>

\* time passes the expiry date of a session
SessionExpires ==
    /\ \E x \in db.sessions :
           /\ x.expires_at = "future"
           /\ db' = [db EXCEPT !.sessions = (@ \ {x}) \cup {[x EXCEPT !.expires_at = "past"]}]
    /\ UNCHANGED <<isDatabaseAvailable, dbReachable, calls, nCalls>>

(***************************************************************************)
(* Startup: startServer awaits initializeApp and only then calls           *)
(* app.listen.  The entry module keeps its own isDatabaseAvailable; the    *)
(* flag of the memory module starts false and is set by                    *)
(* setDatabaseAvailability once the database block of initializeApp is     *)
(* over.  The check of the completion service that follows touches neither *)
(* the store nor the flags and is left out.                                *)
(***************************************************************************)
\* the caller that runs initializeApp
StartupTask == "t1"
\* cleanedSessions before the assignment
NotCleaned == -1

\* sessions the store holds when the process starts
ExpiredSession1 == [Session1 EXCEPT !.expires_at = "past"]
FutureSession2 == [id |-> Uuid(5), user_id |-> Uuid(2),
                   agent_state |-> AgentState(Uuid(6), Uuid(2), <<Turn("user", "hola")>>, "start"),
                   updated_at |-> 0, expires_at |-> "future"]
StartupDatabase(sessions) == [Database(sessions) EXCEPT !.nextId = 7]

StartupIdle ==
    /\ appPc = "listening"
    /\ databaseUrl = FALSE
    /\ appDatabaseAvailable = FALSE
    /\ cleanedSessions = NotCleaned

StartupInit ==
    /\ appPc = "init"
    /\ databaseUrl \in BOOLEAN
    /\ appDatabaseAvailable = FALSE
    /\ cleanedSessions = NotCleaned
    /\ isDatabaseAvailable = FALSE
    /\ dbReachable \in BOOLEAN
    /\ \E sessions \in SUBSET {ExpiredSession1, FutureSession2} :
           db = StartupDatabase(sessions)
    /\ calls = [t \in Tasks |-> NoCall]
    /\ nCalls = 0

\* the database block is over: setDatabaseAvailability(isDatabaseAvailable)
DatabaseBlockEnds(available) ==
    /\ isDatabaseAvailable' = available
    /\ appPc' = "configured"

\* initializeApp up to `await testConnection()`, which returns false on any fault
initializeApp ==
    /\ appPc = "init"
    /\ IF ~databaseUrl
       THEN /\ appDatabaseAvailable' = FALSE
            /\ DatabaseBlockEnds(FALSE)
       ELSE /\ appDatabaseAvailable' = dbReachable
            /\ IF dbReachable
               THEN appPc' = "createSchema" /\ UNCHANGED isDatabaseAvailable
               ELSE DatabaseBlockEnds(FALSE)
    /\ UNCHANGED <<databaseUrl, cleanedSessions, dbReachable, db, calls, nCalls>>

\* `await createSchema()`: a fault is caught by the catch of the database block
createSchema ==
    /\ appPc = "createSchema"
    /\ IF dbReachable
       THEN appPc' = "cleanup" /\ UNCHANGED isDatabaseAvailable
       ELSE DatabaseBlockEnds(appDatabaseAvailable)
    /\ UNCHANGED <<databaseUrl, appDatabaseAvailable, cleanedSessions, dbReachable, db,
                   calls, nCalls>>

\* `AgentMemory.cleanupExpiredSessions()` is called
StartupCleanupCalled ==
    /\ appPc = "cleanup"
    /\ calls' = [calls EXCEPT ![StartupTask] =
                     Settle(AgentMemory_cleanupExpiredSessions(isDatabaseAvailable),
                            isDatabaseAvailable)]
    /\ nCalls' = nCalls + 1
    /\ appPc' = "cleanedSessions"
    /\ UNCHANGED <<databaseUrl, appDatabaseAvailable, cleanedSessions, isDatabaseAvailable,
                   dbReachable, db>>

\* `const cleanedSessions = await ...`: the call has settled
StartupCleanupReturns ==
    /\ appPc = "cleanedSessions"
    /\ calls[StartupTask].pc = "done"
    /\ cleanedSessions' = IF calls[StartupTask].threw THEN cleanedSessions
                          ELSE calls[StartupTask].resultCount
    /\ DatabaseBlockEnds(appDatabaseAvailable)
    /\ UNCHANGED <<databaseUrl, appDatabaseAvailable, dbReachable, db, calls, nCalls>>

\* startServer: initializeApp has returned, app.listen(config.port)
startServer ==
    /\ appPc = "configured"
    /\ appPc' = "listening"
    /\ UNCHANGED <<databaseUrl, appDatabaseAvailable, cleanedSessions, memVars>>

Listening == appPc = "listening"

(***************************************************************************)
(* The three handlers that answer one inbound message: the setImmediate    *)
(* callback of the POST route, processIncomingMessage of the entry module  *)
(* (the callback's fallback) and MessageRouter.processMessage.  The agent  *)
(* is taken by what it returns (processTextMessage and processVoiceMessage *)
(* return a text and never throw); sendTextMessage makes one request and   *)
(* throws when it fails.  `sends` lists the outcome of every               *)
(* sendTextMessage call made for the message.                              *)
(***************************************************************************)
Handlers == {"background", "orchestrator", "router"}

\* an inbound message: its type and whether its content (text body, audio id,
\* transcription) is there
Inbound(type, content) == [type |-> type, content |-> content]
InboundMessages == {Inbound(type, content) : type \in {"text", "audio", "image"},
                                             content \in BOOLEAN}

NoDelivery ==
    [handler |-> "", pc |-> "none", message |-> Inbound("", FALSE), sends |-> <<>>]

\* the setImmediate callback with whatsappAgent set, up to its first await
BackgroundTask(message) ==
    [handler |-> "background", message |-> message, sends |-> <<>>,
     pc |-> CASE message.type = "text" -> "agent"
              [] message.type = "audio" /\ message.content -> "audio"
              [] message.type = "audio" /\ ~message.content -> "send"
              [] OTHER -> "done"]

\* processIncomingMessage of the entry module, up to its first await
App_processIncomingMessage(message) ==
    [handler |-> "orchestrator", message |-> message, sends |-> <<>>,
     pc |-> CASE message.type = "text" -> "agent"
              [] message.type = "audio" /\ message.content -> "audio"
              [] message.type = "audio" /\ ~message.content -> "errorSend"
              [] OTHER -> "send"]

\* MessageRouter.processMessage, up to its first await
MessageRouter_processMessage(message) ==
    [handler |-> "router", message |-> message, sends |-> <<>>,
     pc |-> CASE message.type \in {"text", "audio"} /\ message.content -> "agent"
              [] message.type \in {"text", "audio"} /\ ~message.content -> "errorSend"
              [] OTHER -> "send"]

\* processWhatsAppAudio has settled
Transcribed(run, success) ==
    IF success THEN [run EXCEPT !.pc = "agent"]
    ELSE IF run.handler = "background" THEN [run EXCEPT !.pc = "send"]
    ELSE [run EXCEPT !.pc = "errorSend"]

\* the sendTextMessage of the reply has settled; the catch of the callback
\* logs, the catch of the other two sends the error text
ReplySent(run, ok) ==
    LET sent == [run EXCEPT !.sends = Append(@, IF ok THEN "ok" ELSE "failed")] IN
    IF ok \/ run.handler = "background" THEN [sent EXCEPT !.pc = "done"]
    ELSE [sent EXCEPT !.pc = "errorSend"]

\* the sendTextMessage of the error text, in the catch, has settled
ErrorSent(run, ok) ==
    [run EXCEPT !.pc = "done", !.sends = Append(@, IF ok THEN "ok" ELSE "failed")]

DeliveryIdle ==
    /\ dl = [t \in Tasks |-> NoDelivery]
    /\ nDeliveries = 0

InboundHandled(t) ==
    /\ dl[t].pc \in {"none", "done"}
    /\ nDeliveries < MaxDeliveries
    /\ \E message \in InboundMessages :
           \/ dl' = [dl EXCEPT ![t] = BackgroundTask(message)]
           \/ dl' = [dl EXCEPT ![t] = App_processIncomingMessage(message)]
           \/ dl' = [dl EXCEPT ![t] = MessageRouter_processMessage(message)]
    /\ nDeliveries' = nDeliveries + 1

TranscriptionSettles(t) ==
    /\ dl[t].pc = "audio"
    /\ \E success \in BOOLEAN : dl' = [dl EXCEPT ![t] = Transcribed(@, success)]
    /\ UNCHANGED nDeliveries

AgentAnswers(t) ==
    /\ dl[t].pc = "agent"
    /\ dl' = [dl EXCEPT ![t].pc = "send"]
    /\ UNCHANGED nDeliveries

ReplySendSettles(t) ==
    /\ dl[t].pc = "send"
    /\ \E ok \in BOOLEAN : dl' = [dl EXCEPT ![t] = ReplySent(@, ok)]
    /\ UNCHANGED nDeliveries

ErrorSendSettles(t) ==
    /\ dl[t].pc = "errorSend"
    /\ \E ok \in BOOLEAN : dl' = [dl EXCEPT ![t] = ErrorSent(@, ok)]
    /\ UNCHANGED nDeliveries

(***************************************************************************)
(* WebhookService.verifyWebhookSignature.  A header value is the sequence  *)
(* of its characters.  The HMAC-SHA256 of a body under the app secret is a *)
(* lowercase hex digest, here of DigestChars characters and different for  *)
(* different bodies.                                                       *)
(***************************************************************************)
NoHeader == [defined |-> FALSE, chars |-> <<>>]
Header(chars) == [defined |-> TRUE, chars |-> chars]

Sha256Prefix == <<"s", "h", "a", "2", "5", "6", "=">>

\* crypto.createHmac('sha256', appSecret).update(body, 'utf8').digest('hex')
Hmac(body) ==
    CASE body = "{}" -> <<"1", "a", "2", "b">>
      [] body = "{\"object\":\"whatsapp_business_account\"}" -> <<"3", "c", "4", "d">>

\* signature.replace('sha256=', ''): the first occurrence, wherever it is
ReplaceFirst(s, pattern) ==
    LET at == {i \in 0..(Len(s) - Len(pattern)) :
                   SubSeq(s, i + 1, i + Len(pattern)) = pattern}
    IN  IF at = {} THEN s
        ELSE LET i == CHOOSE i \in at : \A j \in at : i <= j
             IN  SubSeq(s, 1, i) \o SubSeq(s, i + Len(pattern) + 1, Len(s))

HexDigits == {"0", "1", "2", "3", "4", "5", "6", "7", "8", "9",
              "a", "b", "c", "d", "e", "f", "A", "B", "C", "D", "E", "F"}
HexLower(c) ==
    CASE c = "A" -> "a" [] c = "B" -> "b" [] c = "C" -> "c" [] c = "D" -> "d"
      [] c = "E" -> "e" [] c = "F" -> "f" [] OTHER -> c

\* Buffer.from(s, 'hex'): the bytes of the pairs of hex digits, up to the first
\* pair that is not one
RECURSIVE BufferFromHex(_, _)
BufferFromHex(s, i) ==
    IF i + 1 <= Len(s) /\ s[i] \in HexDigits /\ s[i + 1] \in HexDigits
    THEN <<<<HexLower(s[i]), HexLower(s[i + 1])>>>> \o BufferFromHex(s, i + 2)
    ELSE <<>>

\* a boolean, or a thrown exception
Value(b) == [threw |-> FALSE, value |-> b]
Throws == [threw |-> TRUE, value |-> FALSE]

\* crypto.timingSafeEqual: a RangeError when the byte lengths differ
timingSafeEqual(a, b) == IF Len(a) # Len(b) THEN Throws ELSE Value(a = b)

\* the mutant lets the exception out
Mut_SignatureCatch_none(result) == result

\* the catch of verifyWebhookSignature
SignatureCatch(result) == IF result.threw THEN Value(FALSE) ELSE result

verifyWebhookSignature(signature, body) ==
    IF ~signature.defined \/ signature.chars = <<>> THEN Value(FALSE)
    ELSE LET expectedSignature == ReplaceFirst(signature.chars, Sha256Prefix)
             expectedHash == Hmac(body)
         IN  SignatureCatch(timingSafeEqual(BufferFromHex(expectedSignature, 1),
                                            BufferFromHex(expectedHash, 1)))

\* header values: a prefix, hex digits and what follows them
SignaturePrefixes == {<<>>, Sha256Prefix, <<"s", "h", "a", "1", "=">>}
SignatureDigits == {<<>>, <<"1", "a", "2", "b">>, <<"1", "A", "2", "B">>,
                    <<"3", "c", "4", "d">>, <<"1", "a">>, <<"1", "a", "2", "c">>}
SignatureEndings == {<<>>, <<"z", "z">>, <<"0">>, <<"0", "0">>}
Signatures ==
    {NoHeader} \cup {Header(prefix \o digits \o ending) :
                         prefix \in SignaturePrefixes, digits \in SignatureDigits,
                         ending \in SignatureEndings}
RawBodies == {"{}", "{\"object\":\"whatsapp_business_account\"}"}

SignatureIdle ==
    /\ sigPhase = "idle"
    /\ sigInput = [signature |-> NoHeader, body |-> "{}"]
    /\ sigResult = Value(FALSE)

SignatureInit ==
    /\ sigPhase = "call"
    /\ sigInput \in [signature : Signatures, body : RawBodies]
    /\ sigResult = Value(FALSE)

SignatureVerified ==
    /\ sigPhase = "call"
    /\ sigPhase' = "done"
    /\ sigResult' = verifyWebhookSignature(sigInput.signature, sigInput.body)
    /\ UNCHANGED sigInput

(***************************************************************************)
(* The tool registry (AVAILABLE_TOOLS) and processMessageWithLogic.  A     *)
(* reply is named by a string; an operator gives the set of results the    *)
(* code can produce where the code draws one at random or depends on the   *)
(* completion service.                                                     *)
(***************************************************************************)
\* a field of a tool's input: absent, a string or something else (the number 42)
NoField == [kind |-> "undefined", chars |-> <<>>]
StringField(chars) == [kind |-> "string", chars |-> chars]
NumberField == [kind |-> "number", chars |-> <<"4", "2">>]

\* JavaScript truthiness of a field
Truthy(field) == field.kind = "number" \/ (field.kind = "string" /\ field.chars # <<>>)

\* the input of execute: undefined or null (missing), or an object with some
\* of the fields the tools read
MissingInput ==
    [missing |-> TRUE, query |-> NoField, expression |-> NoField, type |-> NoField,
     key |-> NoField, value |-> NoField, userId |-> NoField]
EmptyInput == [MissingInput EXCEPT !.missing = FALSE]

\* what execute gives back: a text, undefined, or a rejection of its promise;
\* evaluated says that safeEval ran the expression
ToolText(text) == [threw |-> FALSE, isText |-> TRUE, text |-> text, evaluated |-> FALSE]
ToolUndefined == [threw |-> FALSE, isText |-> FALSE, text |-> "", evaluated |-> FALSE]
ToolThrew == [threw |-> TRUE, isText |-> FALSE, text |-> "", evaluated |-> FALSE]

\* the text of a template literal's `${...}` on a string
RECURSIVE Text(_)
Text(chars) == IF chars = <<>> THEN "" ELSE Head(chars) \o Text(Tail(chars))

\* TimeTool.execute: the input is not read
TimeTool(input) == {ToolText("La hora actual es: <fecha y hora>")}

\* the table of WebSearchTool.execute, in the order of its keys
RECURSIVE WebSearchResponse(_, _)
WebSearchResponse(query, k) ==
    LET responses == <<[key |-> "clima", response |-> "El clima actual en Bogota es de 18 C"],
                       [key |-> "noticias", response |-> "Las principales noticias del dia"],
                       [key |-> "tiempo", response |-> "El pronostico del tiempo para hoy"],
                       [key |-> "ayuda", response |-> "Estoy aqui para ayudarte. En que puedo asistirte?"],
                       [key |-> "saludo", response |-> "Hola! Como puedo ayudarte hoy?"]>>
    IN  IF k > Len(responses) THEN "He realizado una busqueda sobre " \o Text(query)
        ELSE IF Includes(ToLowerCase(query), responses[k].key) THEN responses[k].response
        ELSE WebSearchResponse(query, k + 1)

\* WebSearchTool.execute: destructuring a missing input throws inside the try
WebSearchTool(input) ==
    IF input.missing THEN {ToolText("Lo siento, no pude realizar la busqueda en este momento.")}
    ELSE IF ~Truthy(input.query) \/ input.query.kind # "string"
    THEN {ToolText("Por favor, proporciona un termino de busqueda valido.")}
    ELSE {ToolText(WebSearchResponse(input.query.chars, 1))}

(***************************************************************************)
(* CalculatorTool.safeEval: `new Function('return ' + sanitized)()` on an  *)
(* expression of digits, + - * / and parentheses.  A value is an integer,  *)
(* a quotient that is not an integer ("fraction", its digits are not       *)
(* modelled) or Infinity/NaN ("nonfinite").  The forms whose JavaScript    *)
(* meaning is not arithmetic on decimal integers (a '.', `**`, `//`, `/*`, *)
(* a number with a leading zero) are outside the expressions of the model  *)
(* and are reported as "unmodelled".                                       *)
(***************************************************************************)
Digits == {"0", "1", "2", "3", "4", "5", "6", "7", "8", "9"}
DigitValue(c) ==
    CASE c = "0" -> 0 [] c = "1" -> 1 [] c = "2" -> 2 [] c = "3" -> 3 [] c = "4" -> 4
      [] c = "5" -> 5 [] c = "6" -> 6 [] c = "7" -> 7 [] c = "8" -> 8 [] c = "9" -> 9

Number(n) == [kind |-> "number", n |-> n]
Fraction == [kind |-> "fraction", n |-> 0]
NonFinite == [kind |-> "nonfinite", n |-> 0]

Abs(n) == IF n < 0 THEN -n ELSE n

\* a op b on values
Apply(op, a, b) ==
    IF a.kind = "nonfinite" \/ b.kind = "nonfinite" THEN NonFinite
    ELSE IF op = "/" /\ b = Number(0) THEN NonFinite
    ELSE IF a.kind = "fraction" \/ b.kind = "fraction" THEN Fraction
    ELSE CASE op = "+" -> Number(a.n + b.n)
           [] op = "-" -> Number(a.n - b.n)
           [] op = "*" -> Number(a.n * b.n)
           [] op = "/" -> IF Abs(a.n) % Abs(b.n) # 0 THEN Fraction
                          ELSE LET q == Abs(a.n) \div Abs(b.n) IN
                               Number(IF (a.n < 0) = (b.n < 0) THEN q ELSE -q)

Parsed(v, p) == [ok |-> TRUE, v |-> v, p |-> p]
SyntaxError == [ok |-> FALSE, v |-> Number(0), p |-> 0]

RECURSIVE ParseNumber(_, _, _)
ParseNumber(s, p, acc) ==
    IF p <= Len(s) /\ s[p] \in Digits
    THEN ParseNumber(s, p + 1, acc * 10 + DigitValue(s[p]))
    ELSE Parsed(Number(acc), p)

RECURSIVE ParseExpression(_, _)
RECURSIVE ParseExpressionRest(_, _, _)
RECURSIVE ParseTerm(_, _)
RECURSIVE ParseTermRest(_, _, _)
RECURSIVE ParseFactor(_, _)

\* a number, a parenthesised expression, or a factor with a sign
ParseFactor(s, p) ==
    IF p > Len(s) THEN SyntaxError
    ELSE IF s[p] \in Digits THEN ParseNumber(s, p, 0)
    ELSE IF s[p] = "("
         THEN LET e == ParseExpression(s, p + 1) IN
              IF e.ok /\ e.p <= Len(s) /\ s[e.p] = ")" THEN Parsed(e.v, e.p + 1)
              ELSE SyntaxError
    ELSE IF s[p] \in {"+", "-"}
         THEN LET f == ParseFactor(s, p + 1) IN
              IF ~f.ok THEN SyntaxError
              ELSE IF s[p] = "-" THEN Parsed(Apply("-", Number(0), f.v), f.p)
              ELSE f
    ELSE SyntaxError

ParseTermRest(s, p, left) ==
    IF p <= Len(s) /\ s[p] \in {"*", "/"}
    THEN LET f == ParseFactor(s, p + 1) IN
         IF ~f.ok THEN SyntaxError
         ELSE ParseTermRest(s, f.p, Apply(s[p], left, f.v))
    ELSE Parsed(left, p)

ParseTerm(s, p) ==
    LET f == ParseFactor(s, p) IN
    IF ~f.ok THEN SyntaxError ELSE ParseTermRest(s, f.p, f.v)

ParseExpressionRest(s, p, left) ==
    IF p <= Len(s) /\ s[p] \in {"+", "-"}
    THEN LET t == ParseTerm(s, p + 1) IN
         IF ~t.ok THEN SyntaxError
         ELSE ParseExpressionRest(s, t.p, Apply(s[p], left, t.v))
    ELSE Parsed(left, p)

ParseExpression(s, p) ==
    LET t == ParseTerm(s, p) IN
    IF ~t.ok THEN SyntaxError ELSE ParseExpressionRest(s, t.p, t.v)

\* `++` and `--` are the increment and decrement tokens: a syntax error here
HasUpdateToken(s) ==
    \E i \in 1..(Len(s) - 1) : s[i] \in {"+", "-"} /\ s[i + 1] = s[i]

Unmodelled(s) ==
    \/ \E i \in 1..Len(s) : s[i] = "."
    \/ \E i \in 1..(Len(s) - 1) :
           \/ s[i] = "*" /\ s[i + 1] = "*"
           \/ s[i] = "/" /\ s[i + 1] \in {"/", "*"}
           \/ s[i] = "0" /\ s[i + 1] \in Digits /\ (i = 1 \/ s[i - 1] \notin Digits)

\* CalculatorTool.safeEval: the finite number the expression evaluates to, or
\* null (a syntax error, a run-time error, Infinity, NaN or no value)
safeEval(expression) ==
    LET sanitized == SelectSeq(expression, LAMBDA c : c \notin WhitespaceChars)
        parsed == ParseExpression(sanitized, 1)
    IN  IF Unmodelled(sanitized) THEN [isNull |-> FALSE, result |-> "unmodelled"]
        ELSE IF HasUpdateToken(sanitized) \/ ~parsed.ok \/ parsed.p # Len(sanitized) + 1
        THEN [isNull |-> TRUE, result |-> ""]
        ELSE IF parsed.v.kind = "nonfinite" THEN [isNull |-> TRUE, result |-> ""]
        ELSE IF parsed.v.kind = "fraction" THEN [isNull |-> FALSE, result |-> "<fraccion>"]
        ELSE [isNull |-> FALSE, result |-> ToString(parsed.v.n)]

\* the characters of /^[0-9+\-*/().\s]+$/
allowedChars == Digits \cup {"+", "-", "*", "/", "(", ")", "."} \cup WhitespaceChars

\* the mutant evaluates whatever it is given
Mut_CalculatorTool_noAllowedChars(input) ==
    IF input.missing THEN {ToolText("Lo siento, no pude realizar el calculo.")}
    ELSE IF ~Truthy(input.expression) \/ input.expression.kind # "string"
    THEN {ToolText("Por favor, proporciona una expresion matematica valida.")}
    ELSE LET result == safeEval(input.expression.chars) IN
         IF result.isNull
         THEN {[ToolText("No pude calcular esa expresion.") EXCEPT !.evaluated = TRUE]}
         ELSE {[ToolText("El resultado de " \o Text(input.expression.chars) \o " es: "
                         \o result.result) EXCEPT !.evaluated = TRUE]}

\* CalculatorTool.execute
CalculatorTool(input) ==
    IF input.missing THEN {ToolText("Lo siento, no pude realizar el calculo.")}
    ELSE IF ~Truthy(input.expression) \/ input.expression.kind # "string"
    THEN {ToolText("Por favor, proporciona una expresion matematica valida.")}
    ELSE LET expression == input.expression.chars IN
         IF \E i \in 1..Len(expression) : expression[i] \notin allowedChars
         THEN {ToolText("La expresion contiene caracteres no permitidos.")}
         ELSE LET result == safeEval(expression) IN
              IF result.isNull
              THEN {[ToolText("No pude calcular esa expresion.") EXCEPT !.evaluated = TRUE]}
              ELSE {[ToolText("El resultado de " \o Text(expression) \o " es: "
                              \o result.result) EXCEPT !.evaluated = TRUE]}

\* the key of MemoryTool's map: `${userId}_${key}`
memoryKey(userId, key) == userId.chars \o <<"_">> \o key.chars

\* MemoryTool.execute: the text it returns
MemoryTool(input) ==
    IF input.missing THEN {ToolText("Lo siento, no pude guardar esa informacion.")}
    ELSE IF ~Truthy(input.key) \/ ~Truthy(input.userId)
    THEN {ToolText("Se requiere una clave y ID de usuario para guardar informacion.")}
    ELSE {ToolText("He guardado " \o Text(input.key.chars) \o " para recordar")}

\* MemoryTool.execute: what it leaves in this.memory (a set of entries, one
\* for each key of the map)
MemoryTool_memory(map, input) ==
    IF input.missing \/ ~Truthy(input.key) \/ ~Truthy(input.userId) THEN map
    ELSE LET k == memoryKey(input.userId, input.key) IN
         {m \in map : m.memoryKey # k}
             \cup {[memoryKey |-> k, value |-> input.value, userId |-> input.userId]}

\* mutant: "buenos" is not a greeting
Mut_mapContentToCourtesyType_noBuenos(content) ==
    LET lowerContent == ToLowerCase(content) IN
    IF Includes(lowerContent, "hola") THEN "greeting"
    ELSE IF Includes(lowerContent, "gracias") THEN "thanks"
    ELSE IF Includes(lowerContent, "adios") \/ Includes(lowerContent, "chau") THEN "goodbye"
    ELSE IF Includes(lowerContent, "disculpa") THEN "apology"
    ELSE "help"

mapContentToCourtesyType(content) ==
    LET lowerContent == ToLowerCase(content) IN
    IF Includes(lowerContent, "hola") \/ Includes(lowerContent, "buenos") THEN "greeting"
    ELSE IF Includes(lowerContent, "gracias") THEN "thanks"
    ELSE IF Includes(lowerContent, "adios") \/ Includes(lowerContent, "chau") THEN "goodbye"
    ELSE IF Includes(lowerContent, "disculpa") THEN "apology"
    ELSE "help"

\* the lists of CourtesyTool.execute
CourtesyResponses(type) ==
    CASE type = "greeting" -> {"Hola! En que puedo ayudarte hoy?", "Buen dia! Como estas?",
                               "Hola! Estoy aqui para asistirte."}
      [] type = "thanks" -> {"De nada! Hay algo mas en lo que pueda ayudarte?",
                             "Es un placer ayudarte.", "Con gusto! Necesitas algo mas?"}
      [] type = "goodbye" -> {"Hasta luego! Que tengas un excelente dia.",
                              "Adios! Nos vemos pronto.", "Hasta la proxima! Cuidate."}
      [] type = "apology" -> {"Disculpa si no pude ayudarte como esperabas.",
                              "Lamento cualquier inconveniente.",
                              "Perdon, intentare mejorar mi respuesta."}
      [] type = "help" -> {"Estoy aqui para ayudarte. Que necesitas?",
                           "En que puedo asistirte hoy?", "Cuentame, como puedo ayudarte?"}

CourtesyTypes == {"greeting", "thanks", "goodbye", "apology", "help"}

\* names every object literal inherits from Object.prototype: `responses[type]`
\* is then a function (or the prototype), which is truthy and has no element 0
InheritedNames == {"toString", "constructor", "valueOf", "hasOwnProperty", "__proto__"}

\* CourtesyTool.execute: one of the three responses of the type, at random
CourtesyTool(input) ==
    IF input.missing THEN {ToolText("En que puedo ayudarte?")}
    ELSE IF input.type.kind # "string" THEN {ToolText("En que puedo ayudarte?")}
    ELSE IF \E type \in CourtesyTypes : input.type.chars = Chars(type)
    THEN LET type == CHOOSE type \in CourtesyTypes : input.type.chars = Chars(type) IN
         {ToolText(response) : response \in CourtesyResponses(type)}
    ELSE IF \E name \in InheritedNames : input.type.chars = Chars(name)
    THEN {ToolUndefined}
    ELSE {ToolText("En que puedo ayudarte?")}

\* a tool of the registry: its name and the class that implements it;
\* "AlwaysThrows" is a tool whose execute always rejects, as a test registers it
Tool(name, class) == [name |-> name, class |-> class]
NullTool == Tool("", "null")

AVAILABLE_TOOLS ==
    <<Tool("get_current_time", "TimeTool"), Tool("web_search", "WebSearchTool"),
      Tool("calculator", "CalculatorTool"), Tool("remember_info", "MemoryTool"),
      Tool("courtesy_response", "CourtesyTool")>>

\* the mutant gives the first tool of the registry, whatever its name
Mut_getToolByName_first(registry, name) ==
    IF name # "" /\ Len(registry) > 0 THEN registry[1] ELSE NullTool

\* getToolByName: Array.prototype.find, or null
getToolByName(registry, name) ==
    LET found == {i \in 1..Len(registry) : registry[i].name = name} IN
    IF found = {} THEN NullTool
    ELSE registry[CHOOSE i \in found : \A j \in found : i <= j]

\* tool.execute(input)
execute(tool, input) ==
    CASE tool.class = "TimeTool" -> TimeTool(input)
      [] tool.class = "WebSearchTool" -> WebSearchTool(input)
      [] tool.class = "CalculatorTool" -> CalculatorTool(input)
      [] tool.class = "MemoryTool" -> MemoryTool(input)
      [] tool.class = "CourtesyTool" -> CourtesyTool(input)
      [] tool.class = "AlwaysThrows" -> {ToolThrew}

extractToolInput(content, toolName, userId) ==
    CASE toolName = "web_search" ->
             [EmptyInput EXCEPT !.query = StringField(
                  Trim(ReplacePrefix(content, <<"busca", "buscar", "investiga">>, 1)))]
      [] toolName = "calculator" ->
             [EmptyInput EXCEPT !.expression = StringField(
                  Trim(ReplacePrefix(content, <<"calcula", "calcular">>, 1)))]
      [] toolName = "remember_info" ->
             [EmptyInput EXCEPT !.key = StringField(Chars("info")),
                                !.value = StringField(content),
                                !.userId = StringField(userId)]
      [] toolName = "courtesy_response" ->
             [EmptyInput EXCEPT !.type = StringField(Chars(mapContentToCourtesyType(content)))]
      [] OTHER -> EmptyInput

\* the table of processMessageWithLogic, in the order of its keys
toolPatterns ==
    <<[toolName |-> "get_current_time", patterns |-> {"hora", "tiempo", "fecha"}],
      [toolName |-> "web_search", patterns |-> {"buscar", "busca", "investigar", "noticias"}],
      [toolName |-> "calculator",
       patterns |-> {"calcular", "suma", "resta", "multiplica", "divide", "+", "-", "*", "/"}],
      [toolName |-> "courtesy_response",
       patterns |-> {"hola", "gracias", "adios", "ayuda", "disculpa"}]>>

\* the table of analyzeIntent, in the order of its keys
intentPatterns ==
    <<[toolName |-> "get_current_time", patterns |-> {"hora", "tiempo", "fecha"}],
      [toolName |-> "web_search", patterns |-> {"buscar", "busca", "investigar", "noticias"}],
      [toolName |-> "calculator",
       patterns |-> {"calcular", "suma", "resta", "multiplica", "divide", "+", "-", "*", "/"}],
      [toolName |-> "remember_info", patterns |-> {"recuerda", "guarda", "memoria"}],
      [toolName |-> "courtesy_response",
       patterns |-> {"hola", "gracias", "adios", "ayuda", "disculpa"}]>>

\* the loop of analyzeIntent: the first entry one of whose patterns the
\* content includes
RECURSIVE IntentTool(_, _)
IntentTool(content, k) ==
    IF k > Len(intentPatterns) THEN ""
    ELSE IF \E pattern \in intentPatterns[k].patterns : Includes(content, pattern)
         THEN intentPatterns[k].toolName
    ELSE IntentTool(content, k + 1)

\* analyzeIntent, a node of the graph that the constructor does not build:
\* what it puts in current_node, context.selected_tool and context.tool_input
Intent(node, toolName, toolInput) ==
    [current_node |-> node, selected_tool |-> toolName, tool_input |-> toolInput]

analyzeIntent(messages, userId) ==
    LET users == {i \in 1..Len(messages) : messages[i].role = "user"} IN
    IF users = {} THEN Intent("respond", "", MissingInput)
    ELSE LET lastUserMessage == messages[CHOOSE i \in users : \A j \in users : j <= i]
             content == ToLowerCase(Chars(lastUserMessage.content))
             toolName == IntentTool(content, 1)
         IN  IF toolName = "" THEN Intent("respond", "", MissingInput)
             ELSE Intent("use_tool", toolName, extractToolInput(content, toolName, userId))

\* the loop of processMessageWithLogic: the first entry of the table one of
\* whose patterns the content includes and whose tool getToolByName finds
RECURSIVE SelectTool(_, _, _)
SelectTool(registry, content, k) ==
    IF k > Len(toolPatterns) THEN ""
    ELSE IF /\ \E pattern \in toolPatterns[k].patterns : Includes(content, pattern)
            /\ getToolByName(registry, toolPatterns[k].toolName) # NullTool
         THEN toolPatterns[k].toolName
    ELSE SelectTool(registry, content, k + 1)

\* the body of the loop on the tool: extractToolInput, tool.execute and the
\* catch; the value returned is a text, or "" for a result that is no text
ExecuteTool(registry, toolName, content, userId) ==
    LET results == execute(getToolByName(registry, toolName),
                           extractToolInput(content, toolName, userId)) IN
    {IF result.threw
     THEN "Lo siento, tuve un problema al procesar tu solicitud con esa herramienta."
     ELSE IF result.isText THEN result.text ELSE "" : result \in results}

\* what the completion service does: there is no API key (getOpenAIService
\* throws), the request fails, or the model answers, possibly with nothing
AiOutcomes == {"nokey", "fails", "empty", "answers"}

getFallbackResponse(prompt) ==
    LET lowerPrompt == ToLowerCase(prompt) IN
    IF Includes(lowerPrompt, "hola") \/ Includes(lowerPrompt, "hello")
    THEN "Hola! En que puedo ayudarte hoy?"
    ELSE IF Includes(lowerPrompt, "ayuda") \/ Includes(lowerPrompt, "help")
    THEN "Estoy aqui para ayudarte. Que necesitas?"
    ELSE IF Includes(lowerPrompt, "gracias") \/ Includes(lowerPrompt, "thank")
    THEN "De nada! Hay algo mas en lo que pueda asistirte?"
    ELSE "Lo siento, no pude procesar tu mensaje correctamente."

generateResponse(prompt, ai) ==
    CASE ai = "answers" -> "<respuesta del modelo>"
      [] ai = "empty" -> ""
      [] ai = "fails" -> getFallbackResponse(prompt)

processMessageWithLogic(registry, userId, messageContent, ai) ==
    LET content == ToLowerCase(Chars(messageContent))
        toolName == SelectTool(registry, content, 1)
    IN  IF toolName # "" THEN ExecuteTool(registry, toolName, content, userId)
        ELSE IF ai # "nokey"
        THEN LET aiResponse == generateResponse(Chars(messageContent), ai) IN
             {IF aiResponse # "" THEN aiResponse
              ELSE "Entiendo tu mensaje. En que mas puedo ayudarte?"}
        ELSE IF Includes(content, "hola") \/ Includes(content, "buenos")
        THEN {"Hola! Como estas? Estoy aqui para ayudarte."}
        ELSE IF Includes(content, "gracias")
        THEN {"De nada! Hay algo mas en lo que pueda asistirte?"}
        ELSE IF Includes(content, "adios") \/ Includes(content, "chau")
        THEN {"Hasta luego! Que tengas un excelente dia."}
        ELSE {"Entiendo tu mensaje. En que mas puedo ayudarte?"}

(***************************************************************************)
(* The registry in use.  The program runs with AVAILABLE_TOOLS; a test     *)
(* replaces a tool of the exported array by one that always throws, or     *)
(* takes one out.                                                          *)
(***************************************************************************)
WithoutTool(registry, name) == SelectSeq(registry, LAMBDA tool : tool.name # name)
WithThrowingTool(registry, name) ==
    [i \in 1..Len(registry) |->
        IF registry[i].name = name THEN Tool(name, "AlwaysThrows") ELSE registry[i]]

Registries ==
    {AVAILABLE_TOOLS, WithoutTool(AVAILABLE_TOOLS, "courtesy_response"),
     WithThrowingTool(AVAILABLE_TOOLS, "calculator")}

NoToolCall ==
    [op |-> "", tool |-> NullTool, name |-> "", input |-> MissingInput,
     messageContent |-> "", ai |-> ""]
NoToolResult ==
    [result |-> ToolUndefined, tool |-> NullTool, selected |-> "", input |-> MissingInput,
     reply |-> "", node |-> ""]

\* a read of the map of MemoryTool: all holds the pairs getAllMemory returns,
\* value the value getMemory returns (found FALSE: null); writer is the userId
\* kept in the stored item the value came from
NoRead ==
    [op |-> "", userId |-> <<>>, key |-> <<>>, found |-> FALSE, value |-> NoField,
     writer |-> NoField, all |-> {}]

ToolsIdle ==
    /\ tools = AVAILABLE_TOOLS
    /\ memory = {}
    /\ mtRead = NoRead
    /\ tlCall = NoToolCall
    /\ tlResult = NoToolResult
    /\ nToolCalls = 0

ToolsInit ==
    /\ tools \in Registries
    /\ memory = {}
    /\ mtRead = NoRead
    /\ tlCall = NoToolCall
    /\ tlResult = NoToolResult
    /\ nToolCalls = 0

\* the inputs a caller hands to execute
ToolInputs ==
    {MissingInput, EmptyInput}
    \cup {[EmptyInput EXCEPT !.query = q] :
          q \in {StringField(Chars(t)) : t \in {"", "clima", "hola"}} \cup {NumberField}}
    \cup {[EmptyInput EXCEPT !.expression = e] :
          e \in {StringField(Chars(t)) :
                 t \in {"", "  ", "2+2", "2+2*3", "(2+2)*3", "8/2", "7/2", "1/0", "2+",
                        "2--2", "abc", "2+2; x"}} \cup {NumberField}}
    \cup {[EmptyInput EXCEPT !.type = y] :
          y \in {StringField(Chars(t)) : t \in CourtesyTypes \cup {"toString", "saludo"}}
                \cup {NumberField}}
    \cup {[EmptyInput EXCEPT !.key = StringField(Chars("info")),
                             !.value = StringField(Chars("hola")), !.userId = u] :
          u \in {NoField, StringField(Chars("u1")), StringField(Chars("u2"))}}

\* the names a caller looks up
ToolNames ==
    {"get_current_time", "web_search", "calculator", "remember_info", "courtesy_response",
     "calc", "translate", ""}

\* the messages handed to processMessageWithLogic
AgentTexts ==
    {"hola", "Hola", "que tal", "la hora", "busca clima", "calcula 2+2", "calcula 2+2*3",
     "calcular 2+2*3", "calcula 7", "gracias", "adios", "ayuda", "disculpa", "chau",
     "buenos ayuda", "recuerda mi clave", "hola recuerda", "guarda la hora"}

\* tool.execute(input) on a tool of the registry
ToolExecutes ==
    /\ nToolCalls < MaxToolCalls
    /\ nToolCalls' = nToolCalls + 1
    /\ \E i \in 1..Len(tools), input \in ToolInputs :
           /\ \E result \in execute(tools[i], input) :
                  /\ tlCall' = [NoToolCall EXCEPT !.op = "execute", !.tool = tools[i],
                                                  !.input = input]
                  /\ tlResult' = [NoToolResult EXCEPT !.result = result]
           /\ memory' = IF tools[i].class = "MemoryTool"
                        THEN MemoryTool_memory(memory, input) ELSE memory
    /\ UNCHANGED <<tools, mtRead>>

\* getToolByName(name)
ToolLookedUp ==
    /\ nToolCalls < MaxToolCalls
    /\ nToolCalls' = nToolCalls + 1
    /\ \E name \in ToolNames :
           /\ tlCall' = [NoToolCall EXCEPT !.op = "getToolByName", !.name = name]
           /\ tlResult' = [NoToolResult EXCEPT !.tool = getToolByName(tools, name)]
    /\ UNCHANGED <<tools, memory, mtRead>>

\* processMessageWithLogic(agentState, messageContent); none of the tools of
\* its table writes to the map of MemoryTool
MessageAnalysed ==
    /\ nToolCalls < MaxToolCalls
    /\ nToolCalls' = nToolCalls + 1
    /\ \E messageContent \in AgentTexts, ai \in AiOutcomes :
           LET content == ToLowerCase(Chars(messageContent))
               toolName == SelectTool(tools, content, 1)
           IN  \E reply \in processMessageWithLogic(tools, Chars("u1"), messageContent, ai) :
                   /\ tlCall' = [NoToolCall EXCEPT !.op = "processMessageWithLogic",
                                                   !.messageContent = messageContent,
                                                   !.ai = ai]
                   /\ tlResult' = [NoToolResult EXCEPT
                                      !.selected = toolName,
                                      !.input = IF toolName = "" THEN MissingInput
                                                ELSE extractToolInput(content, toolName,
                                                                      Chars("u1")),
                                      !.reply = reply]
    /\ UNCHANGED <<tools, memory, mtRead>>

\* analyzeIntent(state) on a state with or without a user turn
IntentAnalysed ==
    /\ nToolCalls < MaxToolCalls
    /\ nToolCalls' = nToolCalls + 1
    /\ \E messageContent \in AgentTexts \cup {""} :
           LET messages == IF messageContent = "" THEN <<Turn("system", "hola")>>
                           ELSE <<Turn("user", messageContent), Turn("system", "hola")>>
               intent == analyzeIntent(messages, Chars("u1"))
           IN  /\ tlCall' = [NoToolCall EXCEPT !.op = "analyzeIntent",
                                               !.messageContent = messageContent]
               /\ tlResult' = [NoToolResult EXCEPT !.selected = intent.selected_tool,
                                                   !.input = intent.tool_input,
                                                   !.node = intent.current_node]
    /\ UNCHANGED <<tools, memory, mtRead>>

(***************************************************************************)
(* The map of MemoryTool under several users: execute writes under the key *)
(* `${userId}_${key}`, getMemory and getAllMemory read.  User ids and keys *)
(* are strings, given by their characters.                                 *)
(***************************************************************************)
FactUsers == {<<"u", "1">>, <<"u", "1", "_", "a">>, <<"u", "2">>}
FactKeys == {<<"b">>, <<"a", "_", "b">>}
FactValues == {StringField(<<"x">>), StringField(<<"y">>)}

\* s.startsWith(prefix)
StartsWith(s, prefix) == Len(prefix) <= Len(s) /\ SubSeq(s, 1, Len(prefix)) = prefix

getMemory(map, userId, key) ==
    LET k == memoryKey(StringField(userId), StringField(key))
        items == {m \in map : m.memoryKey = k}
    IN  IF items = {}
        THEN [NoRead EXCEPT !.op = "getMemory", !.userId = userId, !.key = key]
        ELSE LET item == CHOOSE m \in items : TRUE IN
             [NoRead EXCEPT !.op = "getMemory", !.userId = userId, !.key = key,
                            !.found = TRUE, !.value = item.value,
                            !.writer = item.userId]

getAllMemory(map, userId) ==
    LET prefix == userId \o <<"_">> IN
    [NoRead EXCEPT !.op = "getAllMemory", !.userId = userId,
                   !.all = {[key |-> ReplaceFirst(m.memoryKey, prefix),
                             value |-> m.value, writer |-> m.userId] :
                            m \in {e \in map : StartsWith(e.memoryKey, prefix)}}]

\* a user has the tool remember a value under a key
FactRemembered ==
    /\ \E userId \in FactUsers, key \in FactKeys, value \in FactValues :
           LET input == [EmptyInput EXCEPT !.key = StringField(key), !.value = value,
                                           !.userId = StringField(userId)] IN
           /\ memory' = MemoryTool_memory(memory, input)
           /\ memory' # memory
    /\ UNCHANGED <<tools, tlCall, tlResult, nToolCalls, mtRead>>

FactRead ==
    /\ \E userId \in FactUsers, key \in FactKeys :
           mtRead' = getMemory(memory, userId, key)
    /\ UNCHANGED <<tools, memory, tlCall, tlResult, nToolCalls>>

FactsListed ==
    /\ \E userId \in FactUsers : mtRead' = getAllMemory(memory, userId)
    /\ UNCHANGED <<tools, memory, tlCall, tlResult, nToolCalls>>

(***************************************************************************)
(* WhatsAppAgent.processTextMessage: one conversation turn.  The turn of a *)
(* task stands at the await named by pc; the call it awaits is calls[t].   *)
(* analysed says that processMessageWithLogic ran; sawStore says that at   *)
(* some step of the turn the flag was true or PostgreSQL answered; logged   *)
(* holds the saves whose failure the turn has logged; overlapped says that  *)
(* the turn of another task ran while this one did.                        *)
(***************************************************************************)
NoTurn ==
    [pc |-> "idle", waId |-> "", messageContent |-> "", waMessageId |-> Undefined,
     profileName |-> Undefined, userId |-> EmptyId, agentState |-> NoAgentState, response |-> "",
     analysed |-> FALSE, returned |-> Undefined, sawStore |-> FALSE, logged |-> {},
     overlapped |-> FALSE]

TurnRuns(turn) == turn.pc \notin {"idle", "done"}

Return(turn, text) == [turn EXCEPT !.pc = "done", !.returned = Str(text)]

\* the mutant has no outer catch: the promise of processTextMessage rejects
Mut_TurnFailed_rejects(turn) == [turn EXCEPT !.pc = "done", !.returned = Undefined]

\* the catch of processTextMessage
TurnFailed(turn) == Return(turn, "Lo siento, ocurrio un error al procesar tu mensaje.")

createInitialAgentState(sessionId, userId) == AgentState(sessionId, userId, <<>>, "start")

\* the mutant puts the new turn in front of the others
Mut_addMessageToState_prepends(agentState, role, content) ==
    [agentState EXCEPT !.messages = <<Turn(role, content)>> \o @]

addMessageToState(agentState, role, content) ==
    [agentState EXCEPT !.messages = Append(@, Turn(role, content))]

\* what a step of the turn leaves: the turn and the call of its task
TurnStep(turn, call) == [turn |-> turn, call |-> call]

\* from the entry to the first await
StartTurn(flag, waId, messageContent, waMessageId, profileName) ==
    LET turn == [NoTurn EXCEPT !.waId = waId, !.messageContent = messageContent,
                               !.waMessageId = waMessageId, !.profileName = profileName]
    IN  IF Trim(Chars(waId)) = <<>> \/ Trim(Chars(messageContent)) = <<>>
        THEN TurnStep(TurnFailed(turn), NoCall)
        ELSE TurnStep([turn EXCEPT !.pc = "getUser"], UserRepository_getUserByWaId(flag, waId))

\* the user is known: load the state of the agent
LoadState(flag, turn, user) ==
    TurnStep([turn EXCEPT !.pc = "loadState", !.userId = user.id],
             AgentMemory_loadAgentState(flag, user.id))

\* the state is there: from the user turn to the await of saveAgentState
Respond(flag, turn, call, loaded, generated) ==
    LET withUser == addMessageToState(loaded, "user", turn.messageContent)
        response == IF generated = "" THEN "No te entiendo. Puedes intentar de nuevo?"
                    ELSE generated
    IN  IF Includes(ToLowerCase(Chars(turn.messageContent)), "ping")
        THEN TurnStep(Return([turn EXCEPT !.agentState = withUser], "pong"), call)
        ELSE LET answered == addMessageToState(withUser, "assistant", response) IN
             TurnStep([turn EXCEPT !.pc = "saveState", !.agentState = answered,
                                   !.response = response, !.analysed = TRUE],
                      AgentMemory_saveAgentState(flag, turn.userId, answered))

\* the mutant has no try/catch around a save: its failure reaches the catch
\* of processTextMessage
Mut_SaveSettled_rethrows(turn, call, step) ==
    IF call.threw THEN TurnStep(TurnFailed(turn), call) ELSE step

\* the try/catch around saveAgentState and around each saveMessage: a failure
\* is logged and the turn runs on
SaveSettled(turn, call, step) ==
    IF call.threw THEN [step EXCEPT !.turn.logged = @ \cup {turn.pc}] ELSE step

\* the awaited call has settled: run on to the next await or to the return
ResumeTurn(flag, turn, call, response) ==
    CASE turn.pc = "getUser" ->
             IF call.threw THEN TurnStep(TurnFailed(turn), call)
             ELSE IF ~call.found
                  THEN TurnStep([turn EXCEPT !.pc = "upsertUser"],
                                UserRepository_upsertUser(flag, turn.waId, turn.waId,
                                                          turn.profileName))
             ELSE LoadState(flag, turn, call.resultUser)
      [] turn.pc = "upsertUser" ->
             IF call.threw THEN TurnStep(TurnFailed(turn), call)
             ELSE LoadState(flag, turn, call.resultUser)
      [] turn.pc = "loadState" ->
             IF call.threw THEN TurnStep(TurnFailed(turn), call)
             ELSE IF ~call.found
                  THEN TurnStep([turn EXCEPT !.pc = "getConversation"],
                                AgentMemory_getOrCreateConversation(flag, turn.userId))
             ELSE Respond(flag, turn, call, call.resultState, response)
      [] turn.pc = "getConversation" ->
             IF call.threw THEN TurnStep(TurnFailed(turn), call)
             ELSE Respond(flag, turn, call,
                          createInitialAgentState(call.resultId, turn.userId), response)
      [] turn.pc = "saveState" ->
             SaveSettled(turn, call,
                 TurnStep([turn EXCEPT !.pc = "saveIncoming"],
                          AgentMemory_saveMessage(flag, turn.agentState.session_id,
                                                  "incoming", "text", turn.messageContent,
                                                  turn.waMessageId)))
      [] turn.pc = "saveIncoming" ->
             SaveSettled(turn, call,
                 TurnStep([turn EXCEPT !.pc = "saveOutgoing"],
                          AgentMemory_saveMessage(flag, turn.agentState.session_id,
                                                  "outgoing", "text", turn.response,
                                                  Undefined)))
      [] turn.pc = "saveOutgoing" ->
             SaveSettled(turn, call, TurnStep(Return(turn, turn.response), call))

TurnInput(waId, messageContent, waMessageId) ==
    [waId |-> waId, messageContent |-> messageContent, waMessageId |-> waMessageId,
     profileName |-> Undefined]
TurnInputs ==
    {TurnInput("573001", "hola", Str("wamid.1")),
     TurnInput("573003", "hola", Str("wamid.2")),
     TurnInput("573001", "Ping", Str("wamid.1")),
     TurnInput("573001", "que tal", Str("wamid.2")),
     TurnInput("573001", "calcula 2+2", Str("wamid.3")),
     TurnInput("573001", "  ", Undefined)}

\* the characters of an id, as a template literal prints it
IdChars(id) == <<id.kind, ToString(id.n)>>

\* the replies processMessageWithLogic can give where the turn stands
Generated(turn) ==
    IF turn.pc \in {"loadState", "getConversation"}
    THEN UNION {processMessageWithLogic(tools, IdChars(turn.userId),
                                        turn.messageContent, ai) : ai \in AiOutcomes}
    ELSE {""}

TurnIdle ==
    /\ turns = [t \in Tasks |-> NoTurn]
    /\ nTurns = 0

Observed(turn, seen) == [turn EXCEPT !.sawStore = @ \/ seen]

processTextMessage(t) ==
    /\ ~TurnRuns(turns[t])
    /\ nTurns < MaxTurns
    /\ \E in \in TurnInputs :
           LET step == StartTurn(isDatabaseAvailable, in.waId, in.messageContent,
                                 in.waMessageId, in.profileName) IN
           /\ turns' = [turns EXCEPT ![t] = Observed(step.turn, isDatabaseAvailable)]
           /\ calls' = [calls EXCEPT ![t] = Settle(step.call, isDatabaseAvailable)]
    /\ nTurns' = nTurns + 1
    /\ UNCHANGED <<isDatabaseAvailable, dbReachable, db, nCalls>>

\* the query the turn awaits is answered
TurnQueryAnswered(t) ==
    /\ TurnRuns(turns[t])
    /\ QueryAnswered(t)
    /\ turns' = [turns EXCEPT ![t] = Observed(@, dbReachable)]
    /\ UNCHANGED nTurns

\* the call the turn awaits has settled and the turn runs on
TurnResumes(t) ==
    /\ TurnRuns(turns[t])
    /\ calls[t].pc = "done"
    /\ \E generated \in Generated(turns[t]) :
           LET step == ResumeTurn(isDatabaseAvailable, turns[t], calls[t], generated) IN
           /\ turns' = [turns EXCEPT ![t] = Observed(step.turn, isDatabaseAvailable)]
           /\ calls' = [calls EXCEPT ![t] = Settle(step.call, isDatabaseAvailable)]
    /\ UNCHANGED <<isDatabaseAvailable, dbReachable, db, nCalls, nTurns>>

(***************************************************************************)
(* A conversation: background tasks hand text messages of the provider to  *)
(* processTextMessage, one after the other or while the turn of the other  *)
(* task still runs; the provider may deliver a message again.              *)
(***************************************************************************)
ConversationInputs ==
    {TurnInput("573001", "hola", Str("wamid.1")),
     TurnInput("573001", "que tal", Str("wamid.2")),
     TurnInput("573003", "hola", Str("wamid.3"))}

MessageDelivered(t) ==
    /\ ~TurnRuns(turns[t])
    /\ nTurns < MaxMessages
    /\ \E in \in ConversationInputs :
           LET step == StartTurn(isDatabaseAvailable, in.waId, in.messageContent,
                                 in.waMessageId, in.profileName)
               overlap == \E u \in Tasks \ {t} : TurnRuns(turns[u])
           IN  /\ turns' = [u \in Tasks |->
                               IF u = t
                               THEN [Observed(step.turn, isDatabaseAvailable)
                                        EXCEPT !.overlapped = overlap]
                               ELSE IF TurnRuns(turns[u])
                                    THEN [turns[u] EXCEPT !.overlapped = TRUE]
                                    ELSE turns[u]]
               /\ calls' = [calls EXCEPT ![t] = Settle(step.call, isDatabaseAvailable)]
    /\ nTurns' = nTurns + 1
    /\ UNCHANGED <<isDatabaseAvailable, dbReachable, db, nCalls>>

(***************************************************************************)
(* The POST route of the webhook and the callback it hands to              *)
(* setImmediate.  webhookService, whatsappService and whatsappAgent are    *)
(* set, as the startup code leaves them.  awaited is the set of outbound   *)
(* calls the handler awaited before it returned.  fault says what became   *)
(* of an exception thrown inside the callback: "" (none was thrown),       *)
(* "caught" (the callback's catch block logged it) or "unhandled" (it left *)
(* the callback as an unhandled rejection).                                *)
(***************************************************************************)
NoRequest ==
    [pc |-> "idle", payload |-> NullPayload, result |-> Rejected(""),
     markRead |-> "", awaited |-> {}, response |-> NoResponse]

NoBackground ==
    [pc |-> "none", message |-> NullMessage, response |-> "", sent |-> "", fault |-> ""]

\* the mutant has no try/catch around the callback's body
Mut_BackgroundCatch_none(task) == [task EXCEPT !.pc = "done", !.fault = "unhandled"]

\* the catch block of the callback: the exception is logged and the callback ends
BackgroundCatch(task) == [task EXCEPT !.pc = "done", !.fault = "caught"]

\* a delivery of the provider with one entry, one messages change and these messages
Delivery(messages) ==
    [kind |-> "object", object |-> "whatsapp_business_account", entryKind |-> "array",
     entry |-> <<[isNull |-> FALSE, id |-> "1029384756", changesKind |-> "array",
                  changes |-> <<[isNull |-> FALSE, field |-> "messages",
                                 value |-> [present |-> TRUE,
                                            messaging_product |-> "whatsapp",
                                            messages |-> messages,
                                            hasStatuses |-> FALSE]]>>]>>]

\* the bodies a client posts
Bodies ==
    {NullPayload, PrimitivePayload,
     [kind |-> "object", object |-> "page", entryKind |-> "array", entry |-> <<>>],
     [kind |-> "object", object |-> "whatsapp_business_account", entryKind |-> "array",
      entry |-> <<>>],
     [kind |-> "object", object |-> "whatsapp_business_account", entryKind |-> "array",
      entry |-> <<NullEntry>>],
     [Delivery(<<>>) EXCEPT !.entry[1].changes[1].value.messaging_product = "instagram"],
     Delivery(<<>>),
     Delivery(<<Message("wamid.1", "573001", "text", TRUE, "hola")>>),
     Delivery(<<Message("wamid.8", "573003", "text", TRUE, "que tal")>>),
     Delivery(<<Message("wamid.5", "573001", "image", FALSE, "")>>),
     Delivery(<<Message("wamid.6", "573001", "video", FALSE, "")>>),
     Delivery(<<Message("wamid.7", "573001", "document", FALSE, "")>>),
     Delivery(<<Message("wamid.10", "573001", "location", FALSE, "")>>),
     Delivery(<<Message("wamid.11", "573001", "contact", FALSE, "")>>),
     Delivery(<<AudioMessage("wamid.4", "573001", "media.1")>>),
     Delivery(<<AudioMessage("wamid.9", "573001", "")>>)}

WebhookIdle ==
    /\ wh = [t \in Tasks |-> NoRequest]
    /\ bg = [t \in Tasks |-> NoBackground]
    /\ nRequests = 0

\* the handler from the receipt of the body to its return or its first await
webhookPost(payload) ==
    LET request == [NoRequest EXCEPT !.payload = payload] IN
    IF payload.kind = "null"
    THEN [request EXCEPT !.pc = "done",
                         !.response = HttpResponse(500, "Error interno del servidor")]
    ELSE LET processingResult == processWebhookPayload(payload) IN
         IF processingResult.threw
         THEN [request EXCEPT !.pc = "done", !.result = processingResult,
                              !.response = HttpResponse(500, "Error interno del servidor")]
         ELSE IF ~processingResult.success
         THEN [request EXCEPT !.pc = "done", !.result = processingResult,
                              !.response = HttpResponse(400, processingResult.error)]
         ELSE IF processingResult.hasMessage /\ processingResult.shouldRespond
         THEN [request EXCEPT !.pc = "markRead", !.result = processingResult]
         ELSE [request EXCEPT !.pc = "done", !.result = processingResult,
                              !.response = HttpResponse(200, "ok")]

PostWebhook(t) ==
    /\ wh[t].pc \in {"idle", "done"}
    /\ bg[t].pc \in {"none", "done"}
    /\ nRequests < MaxRequests
    /\ \E payload \in Bodies : wh' = [wh EXCEPT ![t] = webhookPost(payload)]
    /\ bg' = [bg EXCEPT ![t] = NoBackground]
    /\ nRequests' = nRequests + 1
    /\ UNCHANGED <<memVars, turnVars>>

\* markMessageAsRead settles, one way or the other; the handler hands the
\* callback to setImmediate and returns 200
MarkAsReadSettles(t) ==
    /\ wh[t].pc = "markRead"
    /\ \E outcome \in {"ok", "failed"} :
           wh' = [wh EXCEPT ![t] = [@ EXCEPT !.pc = "done", !.markRead = outcome,
                                             !.awaited = @ \cup {"markMessageAsRead"},
                                             !.response = HttpResponse(200, "ok")]]
    /\ bg' = [bg EXCEPT ![t] = [NoBackground EXCEPT !.pc = "scheduled",
                                                    !.message = wh[t].result.message]]
    /\ UNCHANGED <<nRequests, memVars, turnVars>>

\* the agent is called on a text: processTextMessage up to its first await
AgentCalled(t, text) ==
    LET step == StartTurn(isDatabaseAvailable, bg[t].message.from, text,
                          Str(bg[t].message.id), Undefined) IN
    /\ turns' = [turns EXCEPT ![t] = Observed(step.turn, isDatabaseAvailable)]
    /\ calls' = [calls EXCEPT ![t] = Settle(step.call, isDatabaseAvailable)]
    /\ bg' = [bg EXCEPT ![t].pc = "agent"]
    /\ UNCHANGED <<isDatabaseAvailable, dbReachable, db, nCalls, nTurns>>

\* a reply that does not come from the agent is sent
Replies(t, response) ==
    /\ bg' = [bg EXCEPT ![t] = [@ EXCEPT !.pc = "send", !.response = response]]
    /\ UNCHANGED <<memVars, turnVars>>

\* the callback starts
BackgroundRuns(t) ==
    /\ bg[t].pc = "scheduled"
    /\ LET message == bg[t].message IN
       CASE message.type = "text" ->
                AgentCalled(t, IF message.hasText THEN message.body ELSE "")
         [] message.type = "audio" ->
                IF message.audioId # ""
                THEN /\ bg' = [bg EXCEPT ![t].pc = "audio"]
                     /\ UNCHANGED <<memVars, turnVars>>
                ELSE Replies(t, "No se pudo obtener el ID del audio.")
         [] OTHER ->
                /\ bg' = [bg EXCEPT ![t].pc = "done"]
                /\ UNCHANGED <<memVars, turnVars>>
    /\ UNCHANGED <<wh, nRequests>>

\* what processWhatsAppAudio transcribes
Transcriptions == {"hola", "Ping"}

\* the mutant hands the empty text of a failed transcription to the agent
Mut_AudioSettles_agentOnFailure(t) ==
    /\ bg[t].pc = "audio"
    /\ \/ \E text \in Transcriptions : AgentCalled(t, text)
       \/ AgentCalled(t, "")
    /\ UNCHANGED <<wh, nRequests>>

\* processWhatsAppAudio settles: a transcription, or success false
AudioSettles(t) ==
    /\ bg[t].pc = "audio"
    /\ \/ \E text \in Transcriptions : AgentCalled(t, text)
       \/ Replies(t, "Lo siento, no pude transcribir el audio.")
    /\ UNCHANGED <<wh, nRequests>>

\* the agent has returned its reply
AgentReturns(t) ==
    /\ bg[t].pc = "agent"
    /\ turns[t].pc = "done"
    /\ LET response == turns[t].returned.str IN
       bg' = [bg EXCEPT ![t] = [@ EXCEPT !.pc = IF response # "" THEN "send" ELSE "done",
                                         !.response = response]]
    /\ UNCHANGED <<wh, nRequests, memVars, turnVars>>

\* sendTextMessage settles: it returns, or it logs and rethrows the failure of
\* the request, which the callback's catch block receives
SendSettles(t) ==
    /\ bg[t].pc = "send"
    /\ \/ bg' = [bg EXCEPT ![t] = [@ EXCEPT !.pc = "done", !.sent = "ok"]]
       \/ bg' = [bg EXCEPT ![t] = BackgroundCatch([@ EXCEPT !.sent = "failed"])]
    /\ UNCHANGED <<wh, nRequests, memVars, turnVars>>

(***************************************************************************)
(* Specifications.                                                         *)
(***************************************************************************)
InitHandshake == HandshakeInit /\ PayloadIdle /\ MemoryIdle /\ TurnIdle /\ WebhookIdle /\ ToolsIdle /\ StartupIdle /\ DeliveryIdle /\ SignatureIdle
HandshakeNext == GetWebhook /\ UNCHANGED <<sigVars, dlVars, appVars, toolVars, plVars, memVars, turnVars, whVars>>
SpecHandshake == InitHandshake /\ [][HandshakeNext]_vars

PayloadNext ==
    \/ AddEntry /\ UNCHANGED <<sigVars, dlVars, appVars, toolVars, hsVars, memVars, turnVars, whVars>>
    \/ AddChange /\ UNCHANGED <<sigVars, dlVars, appVars, toolVars, hsVars, memVars, turnVars, whVars>>
    \/ AddMessage /\ UNCHANGED <<sigVars, dlVars, appVars, toolVars, hsVars, memVars, turnVars, whVars>>
    \/ ProcessPayload /\ UNCHANGED <<sigVars, dlVars, appVars, toolVars, hsVars, memVars, turnVars, whVars>>
InitPayload == HandshakeIdle /\ PayloadInit /\ MemoryIdle /\ TurnIdle /\ WebhookIdle /\ ToolsIdle /\ StartupIdle /\ DeliveryIdle /\ SignatureIdle
SpecPayload == InitPayload /\ [][PayloadNext]_vars

MemoryNext ==
    \/ \E t \in Tasks : CallLoadAgentState(t) /\ UNCHANGED <<sigVars, dlVars, appVars, toolVars, hsVars, plVars, turnVars, whVars>>
    \/ \E t \in Tasks : CallSaveAgentState(t) /\ UNCHANGED <<sigVars, dlVars, appVars, toolVars, hsVars, plVars, turnVars, whVars>>
    \/ \E t \in Tasks : CallGetOrCreateConversation(t) /\ UNCHANGED <<sigVars, dlVars, appVars, toolVars, hsVars, plVars, turnVars, whVars>>
    \/ \E t \in Tasks : CallSaveMessage(t) /\ UNCHANGED <<sigVars, dlVars, appVars, toolVars, hsVars, plVars, turnVars, whVars>>
    \/ \E t \in Tasks : CallCleanupExpiredSessions(t) /\ UNCHANGED <<sigVars, dlVars, appVars, toolVars, hsVars, plVars, turnVars, whVars>>
    \/ \E t \in Tasks : CallSetSessionExpiry(t) /\ UNCHANGED <<sigVars, dlVars, appVars, toolVars, hsVars, plVars, turnVars, whVars>>
    \/ \E t \in Tasks : CallUpsertUser(t) /\ UNCHANGED <<sigVars, dlVars, appVars, toolVars, hsVars, plVars, turnVars, whVars>>
    \/ \E t \in Tasks : QueryAnswered(t) /\ UNCHANGED <<sigVars, dlVars, appVars, toolVars, hsVars, plVars, turnVars, whVars>>
    \/ \E available \in BOOLEAN :
           setDatabaseAvailability(available) /\ UNCHANGED <<sigVars, dlVars, appVars, toolVars, hsVars, plVars, turnVars, whVars>>
    \/ ConnectivityChanges /\ UNCHANGED <<sigVars, dlVars, appVars, toolVars, hsVars, plVars, turnVars, whVars>>
    \/ SessionExpires /\ UNCHANGED <<sigVars, dlVars, appVars, toolVars, hsVars, plVars, turnVars, whVars>>
InitMemory == HandshakeIdle /\ PayloadIdle /\ MemoryInit /\ TurnIdle /\ WebhookIdle /\ ToolsIdle /\ StartupIdle /\ DeliveryIdle /\ SignatureIdle
SpecMemory == InitMemory /\ [][MemoryNext]_vars

TurnNext ==
    \/ \E t \in Tasks : processTextMessage(t) /\ UNCHANGED <<sigVars, dlVars, appVars, toolVars, hsVars, plVars, whVars>>
    \/ \E t \in Tasks : TurnQueryAnswered(t) /\ UNCHANGED <<sigVars, dlVars, appVars, toolVars, hsVars, plVars, whVars>>
    \/ \E t \in Tasks : TurnResumes(t) /\ UNCHANGED <<sigVars, dlVars, appVars, toolVars, hsVars, plVars, whVars>>
    \/ ConnectivityChanges /\ UNCHANGED <<sigVars, dlVars, appVars, toolVars, hsVars, plVars, turnVars, whVars>>
InitTurn == HandshakeIdle /\ PayloadIdle /\ MemoryInit /\ TurnIdle /\ WebhookIdle /\ ToolsInit /\ StartupIdle /\ DeliveryIdle /\ SignatureIdle
SpecTurn == InitTurn /\ [][TurnNext]_vars
ConversationNext ==
    \/ \E t \in Tasks : MessageDelivered(t) /\ UNCHANGED <<sigVars, dlVars, appVars, toolVars, hsVars, plVars, whVars>>
    \/ \E t \in Tasks : TurnQueryAnswered(t) /\ UNCHANGED <<sigVars, dlVars, appVars, toolVars, hsVars, plVars, whVars>>
    \/ \E t \in Tasks : TurnResumes(t) /\ UNCHANGED <<sigVars, dlVars, appVars, toolVars, hsVars, plVars, whVars>>
\* the startup found the store, which stays reachable, and the full registry
\* is in use
InitConversation ==
    /\ HandshakeIdle /\ PayloadIdle /\ TurnIdle /\ WebhookIdle /\ ToolsIdle
    /\ StartupIdle /\ DeliveryIdle /\ SignatureIdle
    /\ isDatabaseAvailable = TRUE
    /\ dbReachable = TRUE
    /\ db = Database({Session1})
    /\ calls = [t \in Tasks |-> NoCall]
    /\ nCalls = 0
SpecConversation == InitConversation /\ [][ConversationNext]_vars

WebhookNext ==
    \/ \E t \in Tasks : PostWebhook(t) /\ UNCHANGED <<sigVars, dlVars, appVars, toolVars, hsVars, plVars>>
    \/ \E t \in Tasks : MarkAsReadSettles(t) /\ UNCHANGED <<sigVars, dlVars, appVars, toolVars, hsVars, plVars>>
    \/ \E t \in Tasks : BackgroundRuns(t) /\ UNCHANGED <<sigVars, dlVars, appVars, toolVars, hsVars, plVars>>
    \/ \E t \in Tasks : AudioSettles(t) /\ UNCHANGED <<sigVars, dlVars, appVars, toolVars, hsVars, plVars>>
    \/ \E t \in Tasks : TurnQueryAnswered(t) /\ UNCHANGED <<sigVars, dlVars, appVars, toolVars, hsVars, plVars, whVars>>
    \/ \E t \in Tasks : TurnResumes(t) /\ UNCHANGED <<sigVars, dlVars, appVars, toolVars, hsVars, plVars, whVars>>
    \/ \E t \in Tasks : AgentReturns(t) /\ UNCHANGED <<sigVars, dlVars, appVars, toolVars, hsVars, plVars>>
    \/ \E t \in Tasks : SendSettles(t) /\ UNCHANGED <<sigVars, dlVars, appVars, toolVars, hsVars, plVars>>
    \/ ConnectivityChanges /\ UNCHANGED <<sigVars, dlVars, appVars, toolVars, hsVars, plVars, turnVars, whVars>>
InitWebhook == HandshakeIdle /\ PayloadIdle /\ MemoryInit /\ TurnIdle /\ WebhookIdle /\ ToolsIdle /\ StartupIdle /\ DeliveryIdle /\ SignatureIdle
SpecWebhook == InitWebhook /\ [][WebhookNext]_vars

ToolsNext ==
    \/ ToolExecutes /\ UNCHANGED <<sigVars, dlVars, appVars, hsVars, plVars, memVars, turnVars, whVars>>
    \/ ToolLookedUp /\ UNCHANGED <<sigVars, dlVars, appVars, hsVars, plVars, memVars, turnVars, whVars>>
    \/ MessageAnalysed /\ UNCHANGED <<sigVars, dlVars, appVars, hsVars, plVars, memVars, turnVars, whVars>>
    \/ IntentAnalysed /\ UNCHANGED <<sigVars, dlVars, appVars, hsVars, plVars, memVars, turnVars, whVars>>
InitTools == HandshakeIdle /\ PayloadIdle /\ MemoryIdle /\ TurnIdle /\ WebhookIdle /\ ToolsInit /\ StartupIdle /\ DeliveryIdle /\ SignatureIdle
SpecTools == InitTools /\ [][ToolsNext]_vars

FactsNext ==
    \/ FactRemembered /\ UNCHANGED <<sigVars, dlVars, appVars, hsVars, plVars, memVars, turnVars, whVars>>
    \/ FactRead /\ UNCHANGED <<sigVars, dlVars, appVars, hsVars, plVars, memVars, turnVars, whVars>>
    \/ FactsListed /\ UNCHANGED <<sigVars, dlVars, appVars, hsVars, plVars, memVars, turnVars, whVars>>
InitFacts == HandshakeIdle /\ PayloadIdle /\ MemoryIdle /\ TurnIdle /\ WebhookIdle /\ ToolsIdle /\ StartupIdle /\ DeliveryIdle /\ SignatureIdle
SpecFacts == InitFacts /\ [][FactsNext]_vars

StartupNext ==
    \/ initializeApp /\ UNCHANGED <<sigVars, dlVars, toolVars, hsVars, plVars, turnVars, whVars>>
    \/ createSchema /\ UNCHANGED <<sigVars, dlVars, toolVars, hsVars, plVars, turnVars, whVars>>
    \/ StartupCleanupCalled /\ UNCHANGED <<sigVars, dlVars, toolVars, hsVars, plVars, turnVars, whVars>>
    \/ StartupCleanupReturns /\ UNCHANGED <<sigVars, dlVars, toolVars, hsVars, plVars, turnVars, whVars>>
    \/ startServer /\ UNCHANGED <<sigVars, dlVars, toolVars, hsVars, plVars, turnVars, whVars>>
    \/ \E t \in Tasks : Listening /\ CallLoadAgentState(t) /\ UNCHANGED <<sigVars, dlVars, appVars, toolVars, hsVars, plVars, turnVars, whVars>>
    \/ \E t \in Tasks : Listening /\ CallSaveAgentState(t) /\ UNCHANGED <<sigVars, dlVars, appVars, toolVars, hsVars, plVars, turnVars, whVars>>
    \/ \E t \in Tasks : QueryAnswered(t) /\ UNCHANGED <<sigVars, dlVars, appVars, toolVars, hsVars, plVars, turnVars, whVars>>
    \/ ConnectivityChanges /\ UNCHANGED <<sigVars, dlVars, appVars, toolVars, hsVars, plVars, turnVars, whVars>>
    \/ SessionExpires /\ UNCHANGED <<sigVars, dlVars, appVars, toolVars, hsVars, plVars, turnVars, whVars>>
InitStartup == HandshakeIdle /\ PayloadIdle /\ StartupInit /\ TurnIdle /\ WebhookIdle /\ ToolsIdle /\ DeliveryIdle /\ SignatureIdle
SpecStartup == InitStartup /\ [][StartupNext]_vars

DeliveryNext ==
    \/ \E t \in Tasks : InboundHandled(t) /\ UNCHANGED <<sigVars, appVars, toolVars, hsVars, plVars, memVars, turnVars, whVars>>
    \/ \E t \in Tasks : TranscriptionSettles(t) /\ UNCHANGED <<sigVars, appVars, toolVars, hsVars, plVars, memVars, turnVars, whVars>>
    \/ \E t \in Tasks : AgentAnswers(t) /\ UNCHANGED <<sigVars, appVars, toolVars, hsVars, plVars, memVars, turnVars, whVars>>
    \/ \E t \in Tasks : ReplySendSettles(t) /\ UNCHANGED <<sigVars, appVars, toolVars, hsVars, plVars, memVars, turnVars, whVars>>
    \/ \E t \in Tasks : ErrorSendSettles(t) /\ UNCHANGED <<sigVars, appVars, toolVars, hsVars, plVars, memVars, turnVars, whVars>>
InitDelivery == HandshakeIdle /\ PayloadIdle /\ MemoryIdle /\ TurnIdle /\ WebhookIdle /\ ToolsIdle /\ StartupIdle /\ DeliveryIdle /\ SignatureIdle
SpecDelivery == InitDelivery /\ [][DeliveryNext]_vars

SignatureNext ==
    \/ SignatureVerified /\ UNCHANGED <<dlVars, appVars, toolVars, hsVars, plVars, memVars, turnVars, whVars>>
InitSignature == HandshakeIdle /\ PayloadIdle /\ MemoryIdle /\ TurnIdle /\ WebhookIdle /\ ToolsIdle /\ StartupIdle /\ DeliveryIdle /\ SignatureInit
SpecSignature == InitSignature /\ [][SignatureNext]_vars


(***************************************************************************)
(* Claims.                                                                 *)
(***************************************************************************)
\* C1: a POST handler that has returned its 200 acknowledgment awaited no
\* outbound request to the provider on the way, mark-as-read included.
C1_AckAwaitsNothing ==
    \A t \in Tasks :
        (wh[t].pc = "done" /\ wh[t].response.status = 200) => wh[t].awaited = {}

C1_Witness ==
    \E t \in Tasks :
        /\ wh[t].pc = "done" /\ wh[t].response = HttpResponse(200, "ok")
        /\ wh[t].markRead = "failed"
        /\ "markMessageAsRead" \in wh[t].awaited

\* C2: the POST endpoint answers 200 for every payload the validation accepts,
\* whatever happens downstream, and 400 for every payload it rejects, a null
\* body included.
C2_StatusFollowsValidity ==
    \A t \in Tasks :
        wh[t].pc = "done" =>
            wh[t].response.status =
                IF validateWebhookPayload(wh[t].payload).isValid THEN 200 ELSE 400

C2_Witness ==
    \E t \in Tasks :
        /\ wh[t].pc = "done" /\ wh[t].payload = NullPayload
        /\ wh[t].response.status = 500

\* the operations of the Memory Store contract
MemoryOps == {"loadAgentState", "saveAgentState", "saveMessage",
              "getOrCreateConversation", "cleanupExpiredSessions"}
ProviderMessageIds == {Str("wamid.1"), Str("wamid.2")}
RowsOf(whatsappMessageId) ==
    {m \in db.messages : m.whatsapp_message_id = whatsappMessageId}
\* the INSERT of this saveMessage call went through
Stored(call) ==
    /\ call.op = "saveMessage" /\ call.flagAtCall
    /\ call.pc = "q2" \/ (call.pc = "done" /\ ~call.threw)

\* C3: with the store available the message log holds at most one row per
\* provider message id, whatever the order and interleaving of the saveMessage
\* calls; an id that was delivered, twice or more, has exactly one row.
C3_OneRowPerProviderMessageId ==
    \A w \in ProviderMessageIds :
        /\ Cardinality(RowsOf(w)) <= 1
        /\ (\E t \in Tasks : Stored(calls[t]) /\ calls[t].whatsappMessageId = w)
               => Cardinality(RowsOf(w)) = 1

C3_Witness ==
    /\ \A t \in Tasks :
           /\ calls[t].op = "saveMessage" /\ calls[t].flagAtCall
           /\ calls[t].pc = "done" /\ calls[t].queries > 0
           /\ calls[t].conversationId = Uuid(3)
           /\ calls[t].whatsappMessageId = Str("wamid.1")
    /\ Cardinality(RowsOf(Str("wamid.1"))) = 1

\* C4: saveMessage with a provider message id that is already in the log
\* completes without raising the uniqueness violation to its caller.
C4_DuplicateIsBenign ==
    \A t \in Tasks :
        (calls[t].op = "saveMessage" /\ calls[t].pc = "done"
            /\ calls[t].code = "23505") => ~calls[t].threw

C4_Witness ==
    \E t \in Tasks :
        /\ calls[t].op = "saveMessage" /\ calls[t].pc = "done"
        /\ calls[t].threw /\ calls[t].code = "23505"
        /\ Cardinality(RowsOf(calls[t].whatsappMessageId)) = 1

\* C5: an operation called while the availability flag is false settles at once
\* without a single query to the durable store: loadAgentState gives null,
\* saveAgentState returns normally, cleanupExpiredSessions gives 0.
C5_DegradedTouchesNothing ==
    \A t \in Tasks :
        (calls[t].op \in MemoryOps /\ ~calls[t].flagAtCall) =>
            /\ calls[t].pc = "done"
            /\ calls[t].queries = 0
            /\ ~calls[t].threw
            /\ calls[t].op = "loadAgentState" => ~calls[t].found
            /\ calls[t].op = "cleanupExpiredSessions" => calls[t].resultCount = 0

C5_Witness ==
    /\ dbReachable
    /\ \E x \in db.sessions : x.user_id = Uuid(1) /\ x.expires_at # "past"
    /\ calls["t1"].op = "loadAgentState" /\ calls["t1"].userId = Uuid(1)
    /\ ~calls["t1"].flagAtCall /\ calls["t1"].pc = "done" /\ ~calls["t1"].found
    /\ calls["t2"].op = "saveAgentState" /\ ~calls["t2"].flagAtCall
    /\ calls["t2"].pc = "done" /\ ~calls["t2"].threw
    /\ db.sessions = {Session1}

\* C6: a turn for a non-empty text that ran with the flag false and the store
\* unreachable at each of its steps ends with processMessageWithLogic having run
\* and with one of its replies returned to the caller.
C6_TurnCompletesWithoutStore ==
    \A t \in Tasks :
        (/\ turns[t].pc = "done"
         /\ ~turns[t].sawStore
         /\ Trim(Chars(turns[t].messageContent)) # <<>>) =>
            /\ turns[t].analysed
            /\ turns[t].returned.defined
            /\ turns[t].returned.str \in
                   UNION {processMessageWithLogic(tools, IdChars(turns[t].userId),
                                                  turns[t].messageContent, ai) :
                              ai \in AiOutcomes}

C6_Witness ==
    \E t \in Tasks :
        /\ turns[t].pc = "done" /\ ~turns[t].sawStore
        /\ turns[t].messageContent = "hola"
        /\ ~turns[t].analysed
        /\ turns[t].returned = Str("Lo siento, ocurrio un error al procesar tu mensaje.")

\* C7: an operation called with the flag true whose query fails because the
\* store is unreachable does not throw, and leaves the flag false.
C7_ConnectivityLossAbsorbed ==
    \A t \in Tasks :
        (calls[t].op \in MemoryOps /\ calls[t].flagAtCall /\ calls[t].pc = "done"
            /\ calls[t].code = "ECONNREFUSED") =>
            (~calls[t].threw /\ ~calls[t].flagAfter)

C7_Witness ==
    \E t \in Tasks :
        /\ calls[t].op = "loadAgentState" /\ calls[t].pc = "done"
        /\ calls[t].flagAtCall /\ calls[t].code = "ECONNREFUSED"
        /\ calls[t].threw /\ calls[t].flagAfter /\ isDatabaseAvailable

\* the arguments the GET route hands to verifyWebhook
HandshakeMode == OrEmpty(hsQuery.mode)
HandshakeToken == OrEmpty(hsQuery.token)
HandshakeChallenge == OrEmpty(hsQuery.challenge)

\* C8: verifyHandshake returns exactly the challenge if and only if the mode is the
\* subscription mode, the token is the pre-shared secret and the challenge is
\* non-empty; every other combination is rejected, and it never throws.
C8_VerifyHandshakeExact ==
    hsPhase = "done" =>
        /\ ~hsVerify.threw
        /\ IF /\ HandshakeMode = "subscribe"
              /\ HandshakeToken = verifyToken
              /\ HandshakeChallenge # ""
           THEN hsVerify = Returned(HandshakeChallenge)
           ELSE hsVerify = ReturnedNull

C8_Witness ==
    /\ hsPhase = "done"
    /\ HandshakeMode = "subscribe" /\ HandshakeToken = verifyToken
    /\ hsVerify = Returned("1158201444")

\* C9: the GET endpoint answers 200 with the challenge as body when the handshake
\* is verified and 403 in every other case, missing query parameters included;
\* it never answers a server-error status for a failed verification.
C9_GetAnswers200Or403 ==
    hsPhase = "done" =>
        IF /\ hsQuery.mode = Str("subscribe")
           /\ hsQuery.token = Str(verifyToken)
           /\ hsQuery.challenge.defined /\ hsQuery.challenge.str # ""
        THEN hsResponse = HttpResponse(200, hsQuery.challenge.str)
        ELSE hsResponse.status = 403

C9_Witness ==
    /\ hsPhase = "done"
    /\ ~hsQuery.token.defined
    /\ hsQuery.mode = Str("subscribe")
    /\ hsResponse.status = 403

\* the payloads the claim lists: null, non-object, wrong or missing top-level tag,
\* missing or empty entry list, a messages-typed change without the product tag
HasUntaggedMessagesChange(payload) ==
    \E i \in 1..Len(payload.entry) :
        \E j \in 1..Len(payload.entry[i].changes) :
            LET change == payload.entry[i].changes[j] IN
            /\ ~change.isNull
            /\ change.field = "messages"
            /\ (~change.value.present \/ change.value.messaging_product # "whatsapp")

ListedInvalid(payload) ==
    \/ payload.kind # "object"
    \/ payload.object # "whatsapp_business_account"
    \/ payload.entryKind # "array"
    \/ Len(payload.entry) = 0
    \/ HasUntaggedMessagesChange(payload)

\* C10: for every such payload processPayload returns accepted=false with a
\* diagnostic string, and it never throws (for any payload).
C10_InvalidPayloadRejected ==
    plPhase = "done" =>
        /\ ~plResult.threw
        /\ ListedInvalid(plPayload) => (~plResult.success /\ plResult.error # "")

C10_Witness ==
    /\ plPhase = "done"
    /\ plPayload.object = "whatsapp_business_account"
    /\ HasUntaggedMessagesChange(plPayload)
    /\ ~plResult.success
    /\ plResult.error = "Valor de cambio invalido"

\* the messages of a payload's messages-typed changes, in document order
RECURSIVE ChangesMessages(_, _)
ChangesMessages(changes, j) ==
    IF j > Len(changes) THEN <<>>
    ELSE (IF changes[j].isNull \/ changes[j].field # "messages" THEN <<>>
          ELSE changes[j].value.messages)
         \o ChangesMessages(changes, j + 1)

RECURSIVE EntriesMessages(_, _)
EntriesMessages(entries, i) ==
    IF i > Len(entries) THEN <<>>
    ELSE (IF entries[i].isNull THEN <<>> ELSE ChangesMessages(entries[i].changes, 1))
         \o EntriesMessages(entries, i + 1)

PayloadMessages(payload) == EntriesMessages(payload.entry, 1)

HasEmptyChanges(payload) ==
    \E i \in 1..Len(payload.entry) :
        /\ ~payload.entry[i].isNull
        /\ payload.entry[i].changesKind = "array"
        /\ Len(payload.entry[i].changes) = 0

\* C11: a payload containing an entry whose list of changes is empty is
\* reported with accepted=false.
C11_EmptyChangesRejected ==
    (plPhase = "done" /\ HasEmptyChanges(plPayload)) => ~plResult.success

C11_Witness ==
    /\ plPhase = "done"
    /\ plPayload.object = "whatsapp_business_account"
    /\ Len(plPayload.entry) = 1
    /\ plPayload.entry[1].id = "1029384756"
    /\ HasEmptyChanges(plPayload)
    /\ plResult = AcceptedNoMessage

\* a text message whose body is missing, empty or only whitespace
BlankText(message) ==
    /\ ~message.isNull
    /\ message.type = "text"
    /\ (~message.hasText \/ \A k \in 1..Len(Chars(message.body)) :
                                Chars(message.body)[k] \in WhitespaceChars)

\* C12: a valid payload whose only message is a text message with an empty or
\* whitespace-only body yields accepted=true, no canonical message and
\* shouldRespond=false.
C12_BlankTextNotProcessable ==
    (/\ plPhase = "done"
     /\ validateWebhookPayload(plPayload).isValid
     /\ Len(PayloadMessages(plPayload)) = 1
     /\ BlankText(PayloadMessages(plPayload)[1]))
    => (/\ plResult.success
        /\ ~plResult.hasMessage
        /\ plResult.hasShouldRespond /\ ~plResult.shouldRespond)

C12_Witness ==
    /\ plPhase = "done"
    /\ validateWebhookPayload(plPayload).isValid
    /\ Len(PayloadMessages(plPayload)) = 1
    /\ PayloadMessages(plPayload)[1].from = "573001"
    /\ PayloadMessages(plPayload)[1].hasText
    /\ PayloadMessages(plPayload)[1].body = "  "
    /\ plResult = AcceptedNoMessage

\* C13: for an accepted payload shouldRespond is true exactly when a canonical
\* message is returned and its type is text or audio; it is false for image,
\* video, document, location and contact and when no message is returned.
C13_ShouldRespondTextOrAudio ==
    (plPhase = "done" /\ plResult.success) =>
        /\ plResult.hasShouldRespond
        /\ plResult.shouldRespond =
               (plResult.hasMessage /\ plResult.message.type \in {"text", "audio"})
        /\ plResult.hasMessage => plResult.message.type \in SupportedTypes

C13_Witness ==
    /\ plPhase = "done"
    /\ plResult.success
    /\ plResult.hasMessage
    /\ plResult.message.type = "location"
    /\ ~plResult.shouldRespond

\* the claim's processable message: a sender id, a supported type and, for
\* text, a body that is not blank
Processable(message) ==
    /\ ~message.isNull
    /\ message.from # ""
    /\ message.type \in SupportedTypes
    /\ ~BlankText(message)

FirstProcessable(messages) ==
    LET ks == {k \in 1..Len(messages) : Processable(messages[k])} IN
    IF ks = {} THEN 0 ELSE CHOOSE k \in ks : \A l \in ks : k <= l

\* C14: for a valid payload processPayload returns the first processable
\* message in document order over entries, changes and messages (skipping the
\* unprocessable ones), and the event class is the message's declared type.
C14_FirstProcessableReturned ==
    (plPhase = "done" /\ validateWebhookPayload(plPayload).isValid) =>
        LET messages == PayloadMessages(plPayload)
            k == FirstProcessable(messages) IN
        /\ plResult.success
        /\ plResult.hasMessage = (k # 0)
        /\ k # 0 => /\ plResult.message = messages[k]
                    /\ plResult.eventType = messages[k].type
                    /\ plResult.eventType \in SupportedTypes

\* a null element of value.messages, then a processable message in the same
\* entry: the entry is given up as a whole
C14_Witness ==
    /\ plPhase = "done"
    /\ validateWebhookPayload(plPayload).isValid
    /\ LET messages == PayloadMessages(plPayload) IN
       /\ Len(messages) = 2
       /\ messages[1].isNull
       /\ messages[2] = Message("wamid.1", "573001", "text", TRUE, "hola")
    /\ plResult = AcceptedNoMessage

\* with no null element in value.messages the first processable message is
\* the one returned
C14_WithoutNullMessages ==
    (/\ plPhase = "done"
     /\ \A k \in 1..Len(PayloadMessages(plPayload)) : ~PayloadMessages(plPayload)[k].isNull)
    => C14_FirstProcessableReturned

\* C15: no fault of the background task leaves it: a failed agent turn and a
\* failed transcription are replies, a failed send is caught and logged by the
\* callback, and the request that scheduled the task keeps its 200.
C15_BackgroundFaultsContained ==
    \A t \in Tasks :
        /\ bg[t].fault # "unhandled"
        /\ bg[t].sent = "failed" => (bg[t].pc = "done" /\ bg[t].fault = "caught")
        /\ bg[t].pc # "none" =>
               (wh[t].pc = "done" /\ wh[t].response = HttpResponse(200, "ok"))

C15_Witness ==
    \E t \in Tasks :
        /\ bg[t].pc = "done" /\ bg[t].fault = "caught" /\ bg[t].sent = "failed"
        /\ turns[t].pc = "done"
        /\ turns[t].returned = Str("Lo siento, ocurrio un error al procesar tu mensaje.")
        /\ wh[t].response = HttpResponse(200, "ok")

\* the tool the table of patterns names first for a content, whatever the registry
PatternTool(content) == SelectTool(AVAILABLE_TOOLS, content, 1)

\* the selected tool cannot be resolved by name, or its execution throws
ToolUnresolved(registry, content) ==
    PatternTool(content) # "" /\ getToolByName(registry, PatternTool(content)) = NullTool
ToolAlwaysThrows(registry, content) ==
    PatternTool(content) # ""
        /\ getToolByName(registry, PatternTool(content)).class = "AlwaysThrows"

ToolApologies ==
    {"Lo siento, tuve un problema al procesar tu solicitud con esa herramienta.",
     "Lo siento, tuve un problema al procesar tu solicitud."}

\* the turn ended with this text as the assistant turn of the state it saved
\* and as the value it returned
EndedWith(turn, texts) ==
    /\ turn.response \in texts
    /\ turn.returned = Str(turn.response)
    /\ Len(turn.agentState.messages) >= 2
    /\ turn.agentState.messages[Len(turn.agentState.messages)]
           = Turn("assistant", turn.response)

\* C16: when the selected tool cannot be resolved by name or its execution
\* throws, the turn does not abort: a generic apology is the assistant turn of
\* the state that is saved and is the text returned.
C16_ToolFailureApologises ==
    \A t \in Tasks :
        LET content == ToLowerCase(Chars(turns[t].messageContent)) IN
        (/\ turns[t].pc = "done" /\ turns[t].analysed
         /\ (ToolUnresolved(tools, content) \/ ToolAlwaysThrows(tools, content)))
        => EndedWith(turns[t], ToolApologies)

\* "hola" with no courtesy tool in the registry: the loop goes on and the
\* completion service answers
C16_Witness ==
    \E t \in Tasks :
        /\ turns[t].pc = "done" /\ turns[t].analysed
        /\ turns[t].messageContent = "hola"
        /\ tools = WithoutTool(AVAILABLE_TOOLS, "courtesy_response")
        /\ EndedWith(turns[t], {"<respuesta del modelo>"})

\* the half of C16 about a tool whose execution throws
C16_ThrowingToolApologises ==
    \A t \in Tasks :
        (/\ turns[t].pc = "done" /\ turns[t].analysed
         /\ ToolAlwaysThrows(tools, ToLowerCase(Chars(turns[t].messageContent))))
        => EndedWith(turns[t], ToolApologies)

C16_ThrowingToolWitness ==
    \E t \in Tasks :
        /\ turns[t].pc = "done" /\ turns[t].analysed
        /\ turns[t].messageContent = "calcula 2+2"
        /\ tools = WithThrowingTool(AVAILABLE_TOOLS, "calculator")
        /\ EndedWith(turns[t], ToolApologies)

\* messages made of "calcula" or "calcular" and an arithmetic expression: the
\* expression and its value
CalculatorCommands ==
    {[messageContent |-> "calcula 2+2", expression |-> "2+2", value |-> "4"],
     [messageContent |-> "calcula 2+2*3", expression |-> "2+2*3", value |-> "8"],
     [messageContent |-> "calcular 2+2*3", expression |-> "2+2*3", value |-> "8"],
     [messageContent |-> "calcula 7", expression |-> "7", value |-> "7"]}

CalculatorAnswers(command) ==
    /\ tlResult.selected = "calculator"
    /\ tlResult.input.expression = StringField(Chars(command.expression))
    /\ tlResult.reply
           = "El resultado de " \o command.expression \o " es: " \o command.value

\* C17: for "calcula" or "calcular" followed by an arithmetic expression the
\* calculator is selected, the tool input is exactly the expression and the
\* reply contains its value (8 for "calcula 2+2*3").
C17_CalculatorCommand ==
    \A command \in CalculatorCommands :
        (/\ tlCall.op = "processMessageWithLogic"
         /\ tools = AVAILABLE_TOOLS
         /\ tlCall.messageContent = command.messageContent)
        => CalculatorAnswers(command)

\* "calcular 2+2*3": the prefix "calcula" is taken off and "r 2+2*3" is left
C17_Witness ==
    /\ tlCall.op = "processMessageWithLogic"
    /\ tools = AVAILABLE_TOOLS
    /\ tlCall.messageContent = "calcular 2+2*3"
    /\ tlResult.selected = "calculator"
    /\ tlResult.input.expression = StringField(<<"r", " ", "2", "+", "2", "*", "3">>)
    /\ tlResult.reply = "La expresion contiene caracteres no permitidos."

\* the scenario of C17 itself: "calcula 2+2*3" gives 8
C17_Calcula ==
    (/\ tlCall.op = "processMessageWithLogic"
     /\ tools = AVAILABLE_TOOLS
     /\ tlCall.messageContent = "calcula 2+2*3")
    => CalculatorAnswers([messageContent |-> "calcula 2+2*3", expression |-> "2+2*3",
                          value |-> "8"])

C17_CalculaWitness ==
    /\ tlCall.op = "processMessageWithLogic"
    /\ tlCall.messageContent = "calcula 2+2*3"
    /\ tlResult.reply = "El resultado de 2+2*3 es: 8"

\* the class of each keyword of the courtesy pattern
KeywordClass(keyword) ==
    CASE keyword = "hola" -> "greeting"
      [] keyword = "gracias" -> "thanks"
      [] keyword = "adios" -> "goodbye"
      [] keyword = "ayuda" -> "help"
      [] keyword = "disculpa" -> "apology"

CourtesyKeywords == {"hola", "gracias", "adios", "ayuda", "disculpa"}

\* a message handed to the courtesy tool by the real registry
CourtesyAnalysed ==
    /\ tlCall.op = "processMessageWithLogic"
    /\ tools = AVAILABLE_TOOLS
    /\ tlResult.selected = "courtesy_response"

\* C18 as stated: a message that matches no tool pattern other than courtesy
\* gets a reply of the fixed set of the class of a courtesy keyword it holds.
C18_ReplyOfKeywordClass ==
    CourtesyAnalysed =>
        LET content == ToLowerCase(Chars(tlCall.messageContent)) IN
        \E keyword \in CourtesyKeywords :
            /\ Includes(content, keyword)
            /\ tlResult.reply \in CourtesyResponses(KeywordClass(keyword))

\* the class by the precedence of the code: greeting for "hola" or "buenos",
\* then thanks for "gracias", goodbye for "adios" or "chau", apology for
\* "disculpa", and help otherwise
PrecedenceClass(content) ==
    IF Includes(content, "hola") \/ Includes(content, "buenos") THEN "greeting"
    ELSE IF Includes(content, "gracias") THEN "thanks"
    ELSE IF Includes(content, "adios") \/ Includes(content, "chau") THEN "goodbye"
    ELSE IF Includes(content, "disculpa") THEN "apology"
    ELSE "help"

\* C18, amended: the reply is drawn from the fixed set of the class that the
\* precedence above gives the message (so "hola" always gets a greeting, and
\* so does "buenos ... ayuda").
C18_ReplyOfPrecedenceClass ==
    CourtesyAnalysed =>
        tlResult.reply
            \in CourtesyResponses(PrecedenceClass(ToLowerCase(Chars(tlCall.messageContent))))

C18_Witness ==
    /\ CourtesyAnalysed
    /\ tlCall.messageContent = "buenos ayuda"
    /\ tlResult.reply = "Buen dia! Como estas?"

\* C19: for every registered tool and every input, a missing input and missing
\* fields included, execute returns a text and never throws; the lookup by
\* name returns the tool of exactly that name, or nothing when there is none.
C19_ExecuteReturnsText ==
    /\ (tlCall.op = "execute" /\ tlCall.tool.class # "AlwaysThrows")
           => (~tlResult.result.threw /\ tlResult.result.isText)
    /\ tlCall.op = "getToolByName"
           => IF \E i \in 1..Len(tools) : tools[i].name = tlCall.name
              THEN tlResult.tool.name = tlCall.name /\ tlResult.tool # NullTool
              ELSE tlResult.tool = NullTool

\* `responses['toString']` is Object.prototype.toString: execute returns undefined
C19_Witness ==
    /\ tlCall.op = "execute"
    /\ tlCall.tool = Tool("courtesy_response", "CourtesyTool")
    /\ tlCall.input.type = StringField(Chars("toString"))
    /\ tlResult.result = ToolUndefined

\* what does hold of C19: no tool of AVAILABLE_TOOLS throws, and the lookup is exact
C19_NeverThrowsLookupExact ==
    /\ (tlCall.op = "execute" /\ tlCall.tool.class # "AlwaysThrows")
           => ~tlResult.result.threw
    /\ tlCall.op = "getToolByName"
           => IF \E i \in 1..Len(tools) : tools[i].name = tlCall.name
              THEN tlResult.tool.name = tlCall.name /\ tlResult.tool # NullTool
              ELSE tlResult.tool = NullTool

\* the calculator was handed this expression, a non-empty string
CalculatorHanded(expression) ==
    /\ tlCall.op = "execute"
    /\ tlCall.tool.class = "CalculatorTool"
    /\ ~tlCall.input.missing
    /\ tlCall.input.expression = StringField(expression)
    /\ expression # <<>>

AllowedOnly(expression) ==
    \A i \in 1..Len(expression) :
        expression[i] \in {"0", "1", "2", "3", "4", "5", "6", "7", "8", "9",
                           "+", "-", "*", "/", "(", ")", ".", " ", "\t", "\n"}

\* C20: the calculator evaluates an expression only when every character of it
\* is a digit, one of + - * / ( ) . or whitespace; any other input is rejected
\* with a descriptive message and is not evaluated.
C20_OnlyAllowedCharsEvaluated ==
    /\ (tlCall.op = "execute" /\ tlCall.tool.class = "CalculatorTool"
            /\ tlResult.result.evaluated)
           => (tlCall.input.expression.kind = "string"
                   /\ AllowedOnly(tlCall.input.expression.chars))
    /\ \A input \in ToolInputs :
           (CalculatorHanded(input.expression.chars) /\ tlCall.input = input
                /\ ~AllowedOnly(input.expression.chars))
           => (/\ ~tlResult.result.evaluated
               /\ tlResult.result.isText
               /\ tlResult.result.text = "La expresion contiene caracteres no permitidos.")

C20_Witness ==
    /\ CalculatorHanded(Chars("2+2; x"))
    /\ ~tlResult.result.evaluated
    /\ tlResult.result.text = "La expresion contiene caracteres no permitidos."

\* a cleanupExpiredSessions call whose DELETE is answered without an error in this step
CleanupAnswered(t) ==
    /\ calls[t].op = "cleanupExpiredSessions" /\ calls[t].pc = "q1"
    /\ calls'[t].pc = "done" /\ ~calls'[t].threw

\* C21: with the store available, cleanupExpiredSessions deletes exactly the
\* sessions whose expiry is set and has passed, leaves every other session
\* unchanged, and returns the number of sessions it deleted.
C21_CleanupReturnsDeletedCount ==
    [][\A t \in Tasks :
           CleanupAnswered(t) =>
               /\ db'.sessions = {x \in db.sessions : x.expires_at # "past"}
               /\ calls'[t].resultCount = Cardinality(db.sessions \ db'.sessions)]_vars

\* the expired session of user 1 was deleted and the call returned 0
C21_Witness ==
    \E t \in Tasks :
        /\ calls[t].op = "cleanupExpiredSessions" /\ calls[t].pc = "done"
        /\ ~calls[t].threw /\ calls[t].queries = 1
        /\ Session1 \notin db.sessions
        /\ ~\E x \in db.sessions : x.user_id = Uuid(1)
        /\ calls[t].resultCount = 0

\* what does hold of C21: the DELETE removes exactly the expired sessions
C21_DeletesExactlyExpired ==
    [][\A t \in Tasks :
           CleanupAnswered(t) =>
               /\ db'.sessions = {x \in db.sessions : x.expires_at # "past"}
               /\ [db' EXCEPT !.sessions = db.sessions] = db]_vars

\* C22: the expired-session sweep runs at startup: when the store is reachable
\* during initialization, the sessions that were expired when the process
\* started are gone from the store before the server starts accepting webhooks.
C22_StartupSweepDeletes ==
    (Listening /\ cleanedSessions # NotCleaned)
        => ~\E x \in db.sessions : x.id = ExpiredSession1.id /\ x.expires_at = "past"

\* the sweep was called and returned, the server listens with the flag set,
\* and the session that was expired at startup is still stored
C22_Witness ==
    /\ Listening /\ cleanedSessions = 0
    /\ appDatabaseAvailable /\ isDatabaseAvailable
    /\ calls[StartupTask].op = "cleanupExpiredSessions" /\ calls[StartupTask].queries = 0
    /\ ExpiredSession1 \in db.sessions

SessionsOf(userId) == {x \in db.sessions : x.user_id = userId}

\* C23: in every reachable state of the store, after any sequence of
\* saveAgentState, setSessionExpiry and cleanupExpiredSessions calls,
\* sequential or concurrent, each user has at most one session row, hence at
\* most one session that has not expired.
C23_OneSessionPerUser ==
    \A userId \in UserIds :
        /\ Cardinality(SessionsOf(userId)) <= 1
        /\ Cardinality({x \in SessionsOf(userId) : x.expires_at # "past"}) <= 1

\* two callers saved the state of the same user and the table has one row for it
C23_Witness ==
    /\ \A t \in Tasks :
           /\ calls[t].op = "saveAgentState" /\ calls[t].pc = "done"
           /\ ~calls[t].threw /\ calls[t].queries = 1
           /\ calls[t].userId = Uuid(2)
    /\ Cardinality(SessionsOf(Uuid(2))) = 1

\* an upsertUser call whose statement is answered without an error in this step
UpsertAnswered(t) ==
    /\ calls[t].op = "upsertUser" /\ calls[t].pc = "q1"
    /\ calls'[t].pc = "done" /\ ~calls'[t].threw

UsersOf(d, waId) == {u \in d.users : u.wa_id = waId}

EmptyName(profileName) == ~profileName.defined \/ profileName = Str("")

\* C24: a user is created on first contact if absent, and a stored profile
\* name is never overwritten with empty data: after an upsert whose profile
\* name is absent, null or an empty string the stored profile name is
\* unchanged; a non-empty profile name replaces the stored one.
C24_EmptyNameKeepsStored ==
    [][\A t \in Tasks :
           UpsertAnswered(t) =>
               LET before == UsersOf(db, calls[t].waId)
                   after == UsersOf(db', calls[t].waId)
               IN  /\ Cardinality(after) = 1
                   /\ before # {} =>
                          \A old \in before, new \in after :
                              new.profile_name
                                  = IF EmptyName(calls[t].profileName)
                                    THEN old.profile_name ELSE calls[t].profileName]_vars

\* the stored name "Ana" was replaced by the empty string
C24_Witness ==
    \E t \in Tasks :
        /\ calls[t].op = "upsertUser" /\ calls[t].pc = "done" /\ ~calls[t].threw
        /\ calls[t].waId = User1.wa_id /\ calls[t].profileName = Str("")
        /\ \E u \in db.users : u.id = User1.id /\ u.profile_name = Str("")

\* what does hold of C24: an absent user is created, a NULL profile name keeps
\* the stored one and any string, the empty one included, replaces it
C24_NullKeepsStored ==
    [][\A t \in Tasks :
           UpsertAnswered(t) =>
               LET before == UsersOf(db, calls[t].waId)
                   after == UsersOf(db', calls[t].waId)
               IN  /\ Cardinality(after) = 1
                   /\ before = {} => \A new \in after : new.profile_name = calls[t].profileName
                   /\ before # {} =>
                          \A old \in before, new \in after :
                              new.profile_name
                                  = IF ~calls[t].profileName.defined
                                    THEN old.profile_name ELSE calls[t].profileName]_vars

C24_CreatedWitness ==
    \E t \in Tasks :
        /\ calls[t].op = "upsertUser" /\ calls[t].pc = "done" /\ ~calls[t].threw
        /\ calls[t].waId = "573009"
        /\ Cardinality(UsersOf(db, "573009")) = 1

\* C25: when the outbound send of a reply fails, the failure is logged and no
\* further send is attempted for that inbound message: along every path
\* (webhook background task, orchestrator handler, message router) at most one
\* send is attempted per inbound message.
C25_AtMostOneSend ==
    \A t \in Tasks : Len(dl[t].sends) <= 1

\* the reply of the orchestrator handler failed and its catch sent again
C25_Witness ==
    \E t \in Tasks :
        /\ dl[t].handler = "orchestrator" /\ dl[t].pc = "done"
        /\ dl[t].message = Inbound("text", TRUE)
        /\ Len(dl[t].sends) = 2 /\ dl[t].sends[1] = "failed"

\* what does hold of C25: the callback of the POST route sends at most once
C25_BackgroundSendsOnce ==
    \A t \in Tasks : dl[t].handler = "background" => Len(dl[t].sends) <= 1

C25_BackgroundWitness ==
    \E t \in Tasks :
        /\ dl[t].handler = "background" /\ dl[t].pc = "done"
        /\ dl[t].sends = <<"failed">>

\* the supplied value is the computed HMAC in hex, with or without the
\* "sha256=" prefix and in either case of the hex letters
EqualsHmac(signature, body) ==
    /\ signature.defined
    /\ [i \in 1..Len(signature.chars) |-> HexLower(signature.chars[i])]
           \in {Sha256Prefix \o Hmac(body), Hmac(body)}

\* C26: signature verification reports every failure as the value invalid:
\* for a missing signature, one of the wrong length or format, or one that
\* is not the HMAC-SHA256 of the raw body, verifyWebhookSignature returns
\* false and never throws; it returns true only when the supplied value
\* equals the computed HMAC.
C26_TrueOnlyForTheHmac ==
    sigPhase = "done" =>
        /\ ~sigResult.threw
        /\ sigResult.value => EqualsHmac(sigInput.signature, sigInput.body)

\* the HMAC followed by characters that are not hex digits is accepted
C26_Witness ==
    /\ sigPhase = "done"
    /\ sigInput.signature = Header(Sha256Prefix \o Hmac(sigInput.body) \o <<"z", "z">>)
    /\ sigResult = Value(TRUE)

\* what does hold of C26: no exception leaves the function, a missing
\* signature and one whose decoded bytes differ from the HMAC give false
C26_NeverThrows ==
    sigPhase = "done" =>
        /\ ~sigResult.threw
        /\ ~sigInput.signature.defined => ~sigResult.value
        /\ sigResult.value =>
               BufferFromHex(ReplaceFirst(sigInput.signature.chars, Sha256Prefix), 1)
                   = BufferFromHex(Hmac(sigInput.body), 1)

\* a signature of another length: timingSafeEqual throws and the result is false
C26_WrongLengthWitness ==
    /\ sigPhase = "done"
    /\ sigInput.signature = Header(Sha256Prefix \o <<"1", "a">>)
    /\ sigResult = Value(FALSE)

\* the mappings in their declared order: time, search, calculation,
\* memory-write, courtesy
DeclaredOrder ==
    <<"get_current_time", "web_search", "calculator", "remember_info", "courtesy_response">>

\* the earliest mapping one of whose keywords is a substring of the content,
\* or "" when there is none
EarliestMapping(content) ==
    LET matching == {k \in 1..Len(intentPatterns) :
                         \E pattern \in intentPatterns[k].patterns :
                             Includes(content, pattern)}
    IN  IF matching = {} THEN ""
        ELSE DeclaredOrder[CHOOSE k \in matching : \A j \in matching : k <= j]

\* C27: analyze selects the tool of the first mapping, in the declared order
\* time, search, calculation, memory-write, courtesy, one of whose keywords is
\* a substring of the lowercased message; a message whose earliest match is a
\* memory-write keyword gets the memory tool and one matching none goes to respond.
C27_FirstMappingSelected ==
    (tlCall.op = "processMessageWithLogic" /\ tools = AVAILABLE_TOOLS)
        => tlResult.selected = EarliestMapping(ToLowerCase(Chars(tlCall.messageContent)))

\* "recuerda mi clave": no tool is selected and the completion service answers
C27_Witness ==
    /\ tlCall.op = "processMessageWithLogic" /\ tools = AVAILABLE_TOOLS
    /\ tlCall.messageContent = "recuerda mi clave" /\ tlCall.ai = "answers"
    /\ tlResult.selected = ""
    /\ tlResult.reply = "<respuesta del modelo>"

\* what does hold of C27: the node analyzeIntent, which nothing calls, selects
\* the earliest mapping and goes to use_tool, or to respond when none matches
C27_AnalyzeIntentFirstMapping ==
    tlCall.op = "analyzeIntent" =>
        LET content == ToLowerCase(Chars(tlCall.messageContent)) IN
        /\ tlResult.selected = EarliestMapping(content)
        /\ tlResult.node = IF EarliestMapping(content) = "" THEN "respond" ELSE "use_tool"

C27_AnalyzeIntentWitness ==
    /\ tlCall.op = "analyzeIntent" /\ tlCall.messageContent = "hola recuerda"
    /\ tlResult.selected = "remember_info" /\ tlResult.node = "use_tool"

\* the run of a finished turn went through analyze, one of use_tool or
\* respond, and finalize (the state and the two messages were handed to the
\* store), and returned the response
NormalRun(t) ==
    /\ turns[t].analysed
    /\ calls[t].op = "saveMessage" /\ calls[t].direction = "outgoing"
    /\ calls[t].pc = "done"
    /\ EndedWith(turns[t], {turns[t].response})

\* the run of a finished turn ended in error: one apology turn was appended
\* and the apology returned
ErrorRun(t) ==
    /\ ~turns[t].analysed
    /\ EndedWith([turns[t] EXCEPT !.response = "Lo siento, ocurrio un error al procesar tu mensaje."],
                 {"Lo siento, ocurrio un error al procesar tu mensaje."})

\* C28: every run follows the fixed shape: start, analyze, exactly one of
\* use_tool or respond, finalize, done; a fault in any step leads to error,
\* which appends one apology turn and terminates; done and error are the only
\* terminal states.
C28_RunFollowsFixedShape ==
    \A t \in Tasks : turns[t].pc = "done" => (NormalRun(t) \/ ErrorRun(t))

\* a message with "ping" in it: the run returns "pong" after the user turn,
\* with no analysis, no assistant turn and nothing saved
C28_Witness ==
    \E t \in Tasks :
        /\ turns[t].pc = "done" /\ turns[t].messageContent = "Ping"
        /\ turns[t].returned = Str("pong")
        /\ ~turns[t].analysed
        /\ calls[t].op = "loadAgentState"
        /\ turns[t].agentState.messages[Len(turns[t].agentState.messages)]
               = Turn("user", "Ping")

\* what does hold of C28: a finished turn either went through analysis and
\* the three saves and returned its response, or returned "pong", or returned
\* the apology of the catch before any analysis
C28_TerminalRuns ==
    \A t \in Tasks : turns[t].pc = "done" =>
        \/ NormalRun(t)
        \/ ~turns[t].analysed
               /\ turns[t].returned \in {Str("pong"),
                                         Str("Lo siento, ocurrio un error al procesar tu mensaje.")}

\* the canned replies of respond: greeting, thanks and farewell by keyword,
\* and the generic acknowledgment otherwise
CannedReplies(content) ==
    IF Includes(content, "hola") \/ Includes(content, "buenos")
    THEN {"Hola! Como estas? Estoy aqui para ayudarte.", "Hola! En que puedo ayudarte hoy?"}
    ELSE IF Includes(content, "gracias")
    THEN {"De nada! Hay algo mas en lo que pueda asistirte?"}
    ELSE IF Includes(content, "adios") \/ Includes(content, "chau")
    THEN {"Hasta luego! Que tengas un excelente dia."}
    ELSE {"Entiendo tu mensaje. En que mas puedo ayudarte?"}

\* processMessageWithLogic went to respond and the completion service was
\* not there or its call failed
RespondedWithout(outcomes) ==
    /\ tlCall.op = "processMessageWithLogic"
    /\ tlResult.selected = ""
    /\ tlCall.ai \in outcomes

\* C29: when the completion collaborator is unavailable or its call fails,
\* respond returns the greeting, thanks or farewell canned reply chosen by
\* keyword match on the user's text, or else the generic acknowledgment; the
\* failure is never surfaced to the user as an error or apology message.
C29_FallbackIsCanned ==
    RespondedWithout({"nokey", "fails"})
        => tlResult.reply \in CannedReplies(ToLowerCase(Chars(tlCall.messageContent)))

\* the call of the model failed on "que tal" and the user gets an apology
C29_Witness ==
    /\ RespondedWithout({"fails"})
    /\ tlCall.messageContent = "que tal"
    /\ tlResult.reply = "Lo siento, no pude procesar tu mensaje correctamente."

\* what does hold of C29: with the service unavailable (no API key) the
\* reply is the canned one
C29_UnavailableIsCanned ==
    RespondedWithout({"nokey"})
        => tlResult.reply \in CannedReplies(ToLowerCase(Chars(tlCall.messageContent)))

C29_UnavailableWitness ==
    /\ RespondedWithout({"nokey"})
    /\ tlCall.messageContent = "chau"
    /\ tlResult.reply = "Hasta luego! Que tengas un excelente dia."

\* the last turn of a conversation state
LastTurn(agentState) == agentState.messages[Len(agentState.messages)]

\* C30: a persistence failure at the end of a run is logged and swallowed:
\* when saving the state or appending to the message log fails, the run
\* still ends normally and the caller receives the response text already
\* computed, unchanged and without an added apology.
C30_SaveFailureSwallowed ==
    \A t \in Tasks :
        (turns[t].pc = "done" /\ turns[t].analysed)
            => /\ turns[t].returned = Str(turns[t].response)
               /\ LastTurn(turns[t].agentState) = Turn("assistant", turns[t].response)

\* a run answered "que tal", saveAgentState and both saveMessage calls
\* failed, and the caller has the computed answer
C30_Witness ==
    \E t \in Tasks :
        /\ turns[t].pc = "done" /\ turns[t].analysed
        /\ turns[t].logged = {"saveState", "saveIncoming", "saveOutgoing"}
        /\ calls[t].threw
        /\ turns[t].messageContent = "que tal"
        /\ turns[t].returned = Str(turns[t].response)
        /\ turns[t].response # "Lo siento, ocurrio un error al procesar tu mensaje."

\* a failed save moves the run to the next step, never to its end by the
\* catch of processTextMessage
C30_FailedSaveRunsOn ==
    [][\A t \in Tasks :
           (/\ turns[t].pc \in {"saveState", "saveIncoming"}
            /\ calls[t].pc = "done" /\ calls[t].threw
            /\ turns'[t].pc # turns[t].pc)
               => /\ turns'[t].pc \in {"saveIncoming", "saveOutgoing"}
                  /\ turns'[t].response = turns[t].response
                  /\ turns[t].pc \in turns'[t].logged]_vars

\* the turn sequence the store holds for a user
SavedTurns(d, userId) ==
    LET found == {x \in d.sessions : x.user_id = userId} IN
    IF found = {} THEN <<>> ELSE (CHOOSE x \in found : TRUE).agent_state.messages

\* the saveAgentState of the turn of task t is answered in this step, and
\* PostgreSQL has stored the state
StateSaved(t) ==
    /\ TurnRuns(turns[t]) /\ turns[t].pc = "saveState"
    /\ calls[t].pc # "done"
    /\ calls'[t].pc = "done" /\ ~calls'[t].threw

RepliedToText(t) ==
    /\ turns[t].pc = "done" /\ turns[t].returned.defined
    /\ Trim(Chars(turns[t].waId)) # <<>>
    /\ Trim(Chars(turns[t].messageContent)) # <<>>

\* the run called saveAgentState (Respond sets analysed when it does) with a
\* state that ends with the user's message and the returned reply
SaveStateInvoked(t) ==
    /\ turns[t].analysed
    /\ Len(turns[t].agentState.messages) >= 2
    /\ SubSeq(turns[t].agentState.messages, Len(turns[t].agentState.messages) - 1,
              Len(turns[t].agentState.messages))
           = <<Turn("user", turns[t].messageContent),
               Turn("assistant", turns[t].returned.str)>>

\* C32: the conversation state is persisted after each turn: every run for a
\* valid non-empty text message that returns a reply has, before returning,
\* invoked saveState for that user with a state whose last two turns are the
\* user's message and the returned reply.
C32_EveryReplySaved ==
    \A t \in Tasks : RepliedToText(t) => SaveStateInvoked(t)

\* "Ping" was answered "pong": the state was loaded, the user turn appended,
\* and the run returned without a call of saveAgentState
C32_Witness ==
    \E t \in Tasks :
        /\ RepliedToText(t)
        /\ turns[t].messageContent = "Ping"
        /\ turns[t].returned = Str("pong")
        /\ ~turns[t].analysed
        /\ LastTurn(turns[t].agentState) = Turn("user", "Ping")
        /\ calls[t].op \in {"loadAgentState", "getOrCreateConversation"}

\* what does hold of C32: a run that reached the analysis of the text has
\* called saveAgentState with the two turns
C32_AnalysedRepliesSaved ==
    \A t \in Tasks :
        (RepliedToText(t)
         /\ ~Includes(ToLowerCase(Chars(turns[t].messageContent)), "ping")
         /\ turns[t].returned # Str("Lo siento, ocurrio un error al procesar tu mensaje."))
            => SaveStateInvoked(t)

C32_AnalysedWitness ==
    \E t \in Tasks :
        /\ RepliedToText(t) /\ SaveStateInvoked(t)
        /\ turns[t].messageContent = "calcula 2+2"

\* the saveAgentState of task t is answered in this step and returns the id
\* of the row
SaveSucceeds(t) ==
    /\ calls[t].op = "saveAgentState" /\ calls[t].pc = "q1"
    /\ calls'[t].pc = "done" /\ ~calls'[t].threw

\* what loadAgentState of the user returns from store d
Loaded(d, userId) == SelectSession(d, userId).rows

\* C33: a session is loaded on every turn after the one that saved it: with
\* the store available, after saveState(u, s) succeeds, the next
\* loadState(u) returns s (same session id and same turn sequence), whatever
\* the prior state of that user's session row, until a later save, expiry
\* or sweep.
C33_SavedIsLoaded ==
    [][\A t \in Tasks :
           SaveSucceeds(t)
               => /\ Loaded(db', calls[t].userId) # <<>>
                  /\ Loaded(db', calls[t].userId)[1].agent_state = calls[t].agentState]_vars

\* the session of user 1 had expired and was not swept; saveAgentState
\* succeeded on it, the row holds the saved state, and loadAgentState of
\* another caller found nothing
C33_Witness ==
    \E t, u \in Tasks :
        /\ calls[t].op = "saveAgentState" /\ calls[t].pc = "done" /\ ~calls[t].threw
        /\ calls[t].flagAtCall /\ calls[t].userId = User1.id
        /\ \E x \in db.sessions :
               /\ x.user_id = User1.id /\ x.agent_state = calls[t].agentState
               /\ x.expires_at = "past" /\ x.updated_at > Session1.updated_at
        /\ calls[u].op = "loadAgentState" /\ calls[u].pc = "done" /\ ~calls[u].threw
        /\ calls[u].flagAtCall /\ calls[u].queries = 1
        /\ calls[u].userId = User1.id /\ ~calls[u].found
        /\ Loaded(db, User1.id) = <<>>

\* what does hold of C33: when the user's row is absent or has not expired,
\* the saved state is the one the next load returns
C33_UnexpiredSavedIsLoaded ==
    [][\A t \in Tasks :
           (SaveSucceeds(t)
            /\ \A x \in db.sessions : x.user_id = calls[t].userId => x.expires_at # "past")
               => /\ Loaded(db', calls[t].userId) # <<>>
                  /\ Loaded(db', calls[t].userId)[1].agent_state = calls[t].agentState]_vars

C33_UnexpiredWitness ==
    \E t, u \in Tasks :
        /\ calls[t].op = "saveAgentState" /\ calls[t].pc = "done" /\ ~calls[t].threw
        /\ calls[t].flagAtCall
        /\ calls[u].op = "loadAgentState" /\ calls[u].pc = "done" /\ calls[u].found
        /\ calls[u].userId = calls[t].userId
        /\ calls[u].resultState = calls[t].agentState
        /\ calls[u].resultState # StoredState

\* the types the handler accepts and does not answer
UnansweredTypes == {"image", "video", "document", "location", "contact"}

\* the POST handler has returned on a payload whose accepted message is of
\* one of these types
MediaAccepted(t) ==
    /\ wh[t].pc = "done"
    /\ ~wh[t].result.threw /\ wh[t].result.success /\ wh[t].result.hasMessage
    /\ wh[t].result.message.type \in UnansweredTypes

AudioFailures ==
    {"No se pudo obtener el ID del audio.", "Lo siento, no pude transcribir el audio."}

\* the background task of t works on an audio message
AudioTask(t) == bg[t].pc # "none" /\ bg[t].message.type = "audio"

\* C35: for an audio message, transcription happens before the state
\* machine runs and its text becomes the user turn; when the audio id is
\* missing or download/transcription fails, the state machine is not run,
\* no user turn is appended or persisted, and the fault stays contained in
\* the background task.  (As a property of steps: the task of an audio
\* starts a turn only when processWhatsAppAudio has settled, on the
\* transcribed text; a task without audio id or with a failure reply moves
\* no turn, makes no store call and changes nothing in the store; no
\* exception leaves the callback, and the request keeps its 200.)
C35_AudioTranscribedFirst ==
    [][\A t \in Tasks :
           /\ (AudioTask(t) /\ bg[t].pc \in {"scheduled", "audio"}
               /\ turns'[t] # turns[t])
                  => /\ bg[t].pc = "audio" /\ bg[t].message.audioId # ""
                     /\ turns'[t].messageContent \in Transcriptions
                     /\ turns'[t].waId = bg[t].message.from
           /\ (AudioTask(t)
               /\ \/ bg[t].message.audioId = ""
                  \/ bg[t].response \in AudioFailures
                  \/ bg'[t].response \in AudioFailures)
                  => /\ turns'[t] = turns[t] /\ calls'[t] = calls[t]
                     /\ (db' = db \/ \E u \in Tasks \ {t} : calls'[u] # calls[u])
           /\ AudioTask(t)'
                  => /\ bg'[t].fault # "unhandled"
                     /\ wh'[t].response = HttpResponse(200, "ok")]_vars

\* the transcription of an audio failed: the user was told, and no turn ran
C35_Witness ==
    \E t \in Tasks :
        /\ AudioTask(t) /\ bg[t].pc = "done"
        /\ bg[t].message.audioId = "media.1"
        /\ bg[t].response = "Lo siento, no pude transcribir el audio."
        /\ bg[t].sent = "ok"
        /\ turns[t] = NoTurn

\* an audio was transcribed to "hola" and the turn on that text was saved
C35_TranscribedWitness ==
    \E t \in Tasks :
        /\ AudioTask(t) /\ bg[t].pc = "done"
        /\ turns[t].pc = "done" /\ turns[t].analysed
        /\ turns[t].messageContent = "hola"
        /\ Len(SavedTurns(db, User1.id)) = 3
        /\ SavedTurns(db, User1.id)[2] = Turn("user", "hola")

\* how many times a sequence holds a turn
RECURSIVE Occurrences(_, _)
Occurrences(seq, turn) ==
    IF seq = <<>> THEN 0
    ELSE (IF Head(seq) = turn THEN 1 ELSE 0) + Occurrences(Tail(seq), turn)

\* the turns the store holds for the user of a wa_id
SavedTurnsOf(waId) ==
    LET found == {u \in db.users : u.wa_id = waId} IN
    IF found = {} THEN <<>> ELSE SavedTurns(db, (CHOOSE u \in found : TRUE).id)

\* the user turns of a text that the session held before any delivery
StoredBefore(in) ==
    IF in.waId = User1.wa_id
    THEN Occurrences(StoredState.messages, Turn("user", in.messageContent))
    ELSE 0

\* C36: end-to-end idempotency under redelivery: when the provider delivers
\* the same inbound message (same provider message id) twice, sequentially
\* or concurrently, the user's persisted session contains that user turn
\* once and at most one reply is sent to the user for it.  (Every message
\* id of ConversationInputs has one sender and one text, so a second user
\* turn of that text comes from a second delivery of the message.)
C36_RedeliveryIdempotent ==
    /\ \A in \in ConversationInputs :
           Occurrences(SavedTurnsOf(in.waId), Turn("user", in.messageContent))
               <= StoredBefore(in) + 1
    /\ \A t, u \in Tasks :
           (/\ t # u
            /\ turns[t].pc = "done" /\ turns[u].pc = "done"
            /\ turns[t].waMessageId = turns[u].waMessageId)
               => ~(turns[t].analysed /\ turns[u].analysed)

\* wamid.2 ("que tal") was delivered twice, one delivery after the other:
\* the message log refused the second copy, the session holds the user turn
\* twice and both runs returned a reply
C36_Witness ==
    \E t, u \in Tasks :
        /\ t # u
        /\ turns[t].pc = "done" /\ turns[u].pc = "done"
        /\ ~turns[t].overlapped /\ ~turns[u].overlapped
        /\ turns[t].waMessageId = Str("wamid.2") /\ turns[u].waMessageId = Str("wamid.2")
        /\ turns[t].analysed /\ turns[u].analysed
        /\ turns[t].returned.str # "" /\ turns[u].returned.str # ""
        /\ turns[u].logged = {"saveIncoming"}
        /\ calls[u].code = ""
        /\ Occurrences(SavedTurns(db, User1.id), Turn("user", "que tal")) = 2
        /\ Cardinality({m \in db.messages :
                            m.whatsapp_message_id = Str("wamid.2")}) = 1

\* the run of task t has saved its state and finished
SavedRun(t) ==
    /\ turns[t].pc = "done" /\ turns[t].analysed
    /\ "saveState" \notin turns[t].logged

\* C37: no turn is lost under concurrency: when two distinct messages from
\* the same user are processed by two concurrent background tasks with the
\* store available, the session persisted after both tasks finish contains
\* both user turns and both assistant turns.
C37_NoTurnLost ==
    \A t, u \in Tasks :
        (/\ t # u
         /\ SavedRun(t) /\ SavedRun(u)
         /\ turns[t].overlapped /\ turns[u].overlapped
         /\ turns[t].waId = turns[u].waId
         /\ turns[t].waMessageId # turns[u].waMessageId)
            => \A r \in {t, u} :
                   /\ Occurrences(SavedTurnsOf(turns[r].waId),
                                  Turn("user", turns[r].messageContent)) >= 1
                   /\ Occurrences(SavedTurnsOf(turns[r].waId),
                                  Turn("assistant", turns[r].response)) >= 1

\* "hola" and "que tal" of user 573001 were processed concurrently: both runs
\* loaded the stored state, both saved, and the session holds the turns of
\* "hola" only
C37_Witness ==
    \E t, u \in Tasks :
        /\ t # u
        /\ SavedRun(t) /\ SavedRun(u)
        /\ turns[t].overlapped /\ turns[u].overlapped
        /\ turns[t].messageContent = "hola" /\ turns[u].messageContent = "que tal"
        /\ turns[t].waId = "573001" /\ turns[u].waId = "573001"
        /\ turns[t].logged = {} /\ turns[u].logged = {}
        /\ SavedTurns(db, User1.id)
               = StoredState.messages
                     \o <<Turn("user", "hola"), Turn("assistant", turns[t].response)>>

\* the conversation rows of a user
ConversationsOf(userId) == {c \in db.conversations : c.user_id = userId}

\* C38: getOrCreateConversation creates at most one conversation per user:
\* after any number of calls for the same user, including concurrent calls
\* on first contact, exactly one conversation row exists for that user and
\* every call returned its id.
C38_OneConversationPerUser ==
    \A userId \in UserIds :
        /\ Cardinality(ConversationsOf(userId)) <= 1
        /\ \A t \in Tasks :
               (/\ calls[t].op = "getOrCreateConversation" /\ calls[t].flagAtCall
                /\ calls[t].userId = userId
                /\ calls[t].pc = "done" /\ ~calls[t].threw)
                   => ConversationsOf(userId) = {[id |-> calls[t].resultId,
                                                  user_id |-> userId,
                                                  updated_at |->
                                                      (CHOOSE c \in ConversationsOf(userId) :
                                                           TRUE).updated_at]}

\* two callers asked for the conversation of user 2 on first contact: both
\* SELECTs found nothing, both INSERTs succeeded, and each caller has the id
\* of its own row
C38_Witness ==
    /\ Cardinality(ConversationsOf(User2.id)) = 2
    /\ \A t \in Tasks :
           /\ calls[t].op = "getOrCreateConversation" /\ calls[t].userId = User2.id
           /\ calls[t].pc = "done" /\ ~calls[t].threw /\ calls[t].queries = 2
    /\ calls["t1"].resultId # calls["t2"].resultId

\* what does hold of C38: a call made for a user who has a conversation
\* returns the id of a row of that user and inserts nothing
C38_ExistingReturned ==
    \A t \in Tasks :
        (/\ calls[t].op = "getOrCreateConversation" /\ calls[t].flagAtCall
         /\ calls[t].pc = "done" /\ ~calls[t].threw /\ calls[t].found)
            => /\ calls[t].queries = 1
               /\ \E c \in ConversationsOf(calls[t].userId) : c.id = calls[t].resultId

C38_ExistingWitness ==
    \E t \in Tasks :
        /\ calls[t].op = "getOrCreateConversation" /\ calls[t].userId = User1.id
        /\ calls[t].pc = "done" /\ calls[t].found
        /\ calls[t].resultId = Conversation1.id
        /\ ConversationsOf(User1.id) = {Conversation1}

\* C39: the memory tool keeps users' facts isolated: getMemory(u, k) returns
\* the value last written by user u under key k (or nothing), and
\* getAllMemory(u) contains only facts written by user u; a write by one
\* user never changes what another user reads.
C39_FactsIsolated ==
    /\ (mtRead.op = "getMemory" /\ mtRead.found)
           => mtRead.writer = StringField(mtRead.userId)
    /\ mtRead.op = "getAllMemory"
           => \A fact \in mtRead.all : fact.writer = StringField(mtRead.userId)

\* user "u1" reads its key "a_b" and gets the value that user "u1_a" wrote
\* under its key "b": both are stored under "u1_a_b"
C39_Witness ==
    /\ mtRead.op = "getMemory" /\ mtRead.found
    /\ mtRead.userId = <<"u", "1">> /\ mtRead.key = <<"a", "_", "b">>
    /\ mtRead.writer = StringField(<<"u", "1", "_", "a">>)
    /\ mtRead.value = StringField(<<"y">>)

\* getAllMemory("u1") lists under "a_b" a fact of user "u1_a"
C39_ListWitness ==
    /\ mtRead.op = "getAllMemory" /\ mtRead.userId = <<"u", "1">>
    /\ [key |-> <<"a", "_", "b">>, value |-> StringField(<<"x">>),
        writer |-> StringField(<<"u", "1", "_", "a">>)] \in mtRead.all

\* an id without "_", as the UUIDs PostgreSQL gives
Plain(userId) == \A i \in 1..Len(userId) : userId[i] # "_"

\* what does hold of C39: while the reader and the writers of the stored
\* facts have ids without "_", a read returns facts of the reader only
C39_UuidUsersIsolated ==
    [][(/\ mtRead' # mtRead
        /\ Plain(mtRead'.userId)
        /\ \A m \in memory : Plain(m.userId.chars))
           => /\ mtRead'.found => mtRead'.writer = StringField(mtRead'.userId)
              /\ \A fact \in mtRead'.all : fact.writer = StringField(mtRead'.userId)]_vars

C39_UuidUsersWitness ==
    /\ mtRead.op = "getMemory" /\ mtRead.found
    /\ mtRead.userId = <<"u", "2">> /\ mtRead.key = <<"a", "_", "b">>
    /\ mtRead.writer = StringField(<<"u", "2">>)
    /\ \E m \in memory : m.userId = StringField(<<"u", "1">>)

\* C40: processTextMessage is total: for every user id and message content
\* (empty or invalid inputs included) and every failure of the store, of a
\* tool or of the completion collaborator, it returns a non-empty text and
\* never throws to its caller.
C40_AlwaysReturnsText ==
    \A t \in Tasks :
        turns[t].pc = "done"
            => /\ turns[t].returned.defined
               /\ turns[t].returned.str # ""

\* the store went away before loadAgentState was answered: the run ended in
\* the outer catch and returned its text
C40_Witness ==
    \E t \in Tasks :
        /\ turns[t].pc = "done"
        /\ calls[t].op = "loadAgentState" /\ calls[t].threw
        /\ calls[t].code = "ECONNREFUSED"
        /\ turns[t].returned = Str("Lo siento, ocurrio un error al procesar tu mensaje.")

\* a blank text is answered with the same text
C40_BlankWitness ==
    \E t \in Tasks :
        /\ turns[t].pc = "done" /\ turns[t].messageContent = "  "
        /\ calls[t] = NoCall
        /\ turns[t].returned = Str("Lo siento, ocurrio un error al procesar tu mensaje.")

\* the call of the completion service failed and the run returned the text
\* of the service's fallback
C40_CompletionFailureWitness ==
    \E t \in Tasks :
        /\ turns[t].pc = "done" /\ turns[t].analysed
        /\ turns[t].messageContent = "que tal"
        /\ turns[t].returned = Str("Lo siento, no pude procesar tu mensaje correctamente.")

\* the calculator of the registry throws and the run returns the apology of
\* the tool step
C40_ToolFailureWitness ==
    \E t \in Tasks :
        /\ turns[t].pc = "done" /\ turns[t].analysed
        /\ turns[t].messageContent = "calcula 2+2"
        /\ turns[t].returned
               = Str("Lo siento, tuve un problema al procesar tu solicitud con esa herramienta.")

=============================================================================
